---- MODULE Spec2Model ----
(***************************************************************************)
(* The quantitative signal and aggregation pipeline of the CS2 inventory   *)
(* manager: price collection (collector.collect_prices), daily OHLC        *)
(* aggregation (collector.aggregate_daily), signal computation and alert   *)
(* generation (quant_engine), the backfill task and the HTTP handlers and  *)
(* scheduler jobs that start them.                                         *)
(*                                                                         *)
(* Conventions.  Money is in cents.  Times are seconds on one clock (now); *)
(* a snapshot minute is now \div 60 and a date is now \div DaySecs, which  *)
(* order exactly as the "YYYYMMDDHHmm" / "YYYYMMDD" strings of the code.   *)
(* An optional value is a set with at most one element (None == {}).       *)
(* Every coroutine is a thread with a program counter pc[t] and locals     *)
(* loc[t]; one action is the code between two awaits that can interleave.  *)
(* A database transaction (first DML statement to commit) is one step:     *)
(* SQLite admits one writer, so nothing else commits in between.           *)
(***************************************************************************)
EXTENDS Integers, Sequences, FiniteSets, TLC

VARIABLES
    now,              \* the clock, in seconds
    api_key,          \* settings.steamdt_api_key is non-empty
    call,             \* a call of a pure function: name, arguments, result
    inventory,        \* active inventory_item rows, in table order
    price_snapshot,   \* table price_snapshot (ticks)
    price_history,    \* table price_history (bars)
    quant_signal,     \* table quant_signal
    quant_alert,      \* table quant_alert, in id order
    item_avg_price,   \* table item_avg_price
    collector_state,  \* collector.collector_state
    backfill_state,   \* collector.backfill_state
    pc,               \* thread -> position in its coroutine
    loc,              \* thread -> locals of its coroutine
    obs               \* history of what the threads did (observation only)

vars == <<now, api_key, call, inventory, price_snapshot, price_history,
          quant_signal, quant_alert, item_avg_price, collector_state,
          backfill_state, pc, loc, obs>>

tables == <<price_snapshot, price_history, quant_signal, quant_alert,
            item_avg_price>>
config == <<api_key, call, inventory>>

-----------------------------------------------------------------------------
(* Optional values *)

None == {}
Some(v) == {v}
IsSome(x) == x # {}
Val(x) == CHOOSE v \in x : TRUE

\* No pure function is being called.
NoCall == [fn |-> "none", args |-> <<>>, out |-> None]

Min2(a, b) == IF a <= b THEN a ELSE b
Max2(a, b) == IF a >= b THEN a ELSE b

SetMin(S) == CHOOSE x \in S : \A y \in S : x <= y
SetMax(S) == CHOOSE x \in S : \A y \in S : x >= y

RECURSIVE SetSum(_)
SetSum(S) == IF S = {} THEN 0 ELSE LET x == CHOOSE y \in S : TRUE IN x + SetSum(S \ {x})

Range(s) == {s[i] : i \in DOMAIN s}

-----------------------------------------------------------------------------
(* Bounds of the model *)

MaxNow == 130          \* the clock stops here (collection runs)

\* Clock increments of the collection runs: 30+30 = 60 and 31+31 = 62 are reachable.
LoopSteps == {30, 31}

\* Sizes of the active inventory tried by the collection runs.
CollectSizes == {0, 1, 100, 101, 201}

StartDay == 3          \* the day the pipeline runs begin on, at midnight
MaxCrashes == 1        \* process crashes in a run of the model
MaxBadFetches == 1     \* fetches of the running backfills that keep no average
MaxBackfills == 2      \* backfill tasks the endpoint creates

-----------------------------------------------------------------------------
(* Program constants *)

ChunkSize == 100       \* collect_prices: hash_names[i:i + 100]
MaxBatch == 100        \* fetch_batch_prices: len(market_hash_names) > 100 raises
SleepSeconds == 62     \* collect_prices: asyncio.sleep(62)
MinuteSecs == 60       \* _snapshot_minute: "%Y%m%d%H%M"
DaySecs == 86400       \* timedelta(days=1), datetime('now', '-1 day')

\* collector_state and backfill_state as the module defines them.  A progress
\* text is the tuple of the parts of its f-string.
InitCollectorState ==
    [status |-> "idle", last_run |-> None, last_error |-> None,
     items_collected |-> 0, batches_done |-> 0, batches_total |-> 0]

InitBackfillState ==
    [status |-> "idle", progress |-> <<"">>, done |-> 0, total |-> 0]

Threads == {"price_collect", "daily_aggregate", "daily_signals",
            "cleanup_snapshots", "req1", "bf1", "bf2"}

Minute(t) == t \div MinuteSecs

\* strftime("%Y%m%d") of a time, and the date a snapshot minute begins with.
Date(t) == t \div DaySecs
DateOfMinute(m) == m \div (DaySecs \div MinuteSecs)

-----------------------------------------------------------------------------
(* Locals of a thread.  Every thread carries the same record. *)

NoLocals ==
    [ hash_names |-> <<>>,     \* collect_prices / backfill: the active names
      chunks     |-> <<>>,     \* collect_prices: the batches
      idx        |-> 0,        \* collect_prices: index of the current batch
      wake       |-> 0,        \* asyncio.sleep: the time it returns
      call_start |-> None,     \* when the current upstream call began
      last_end   |-> None,     \* when the last batch attempt ended
      results    |-> <<>>,     \* per batch of this cycle: did it succeed
      ret        |-> "idle",   \* where the caller goes on when the callee returns
      target_date |-> None,    \* aggregate_daily / compute_all_signals
      rows       |-> {},       \* rows read or computed, about to be written
      all_names  |-> {},       \* compute_all_signals: names with price_history
      purchase_map |-> {},     \* compute_all_signals: pairs <<name, eff_price>>
      cands      |-> <<>>,     \* alert loops: triggered rules not yet checked
      pend       |-> <<>>,     \* alert loops: db.add()ed, not yet flushed
      avg_data   |-> {},       \* backfill: triples <<name, days, avg_price>>
      todo       |-> <<>>,     \* backfill: the work the current loop has left
      today      |-> 0,        \* backfill: the day it started
      generated  |-> 0,        \* backfill: bars written
      bad        |-> 0,        \* backfill: fetches of this run that kept no average
      failed     |-> {},       \* compute_all_signals: names whose item raised
      count      |-> 0         \* compute_all_signals: upserts executed
    ]

\* The locals of the callees, as a coroutine that is not inside one has them.
ClearCallee(l) ==
    [l EXCEPT !.ret = "idle", !.target_date = None, !.rows = {}, !.all_names = {},
              !.purchase_map = {}, !.cands = <<>>, !.pend = <<>>,
              !.failed = {}, !.count = 0]

NoObs ==
    [ outcome  |-> "none",    \* how the last invocation ended
      raised   |-> FALSE,     \* an exception left the job
      called   |-> FALSE,     \* an upstream call was made
      wrote    |-> FALSE,     \* a table was written
      computed |-> {},        \* Signal rows this thread computed and wrote
      runs     |-> <<>>,      \* per finished aggregate_daily: date, ticks, bars
      pre      |-> <<>>,      \* the tables before the first run, once taken
      crashes  |-> 0,         \* process crashes so far
      crashed_at |-> "none",  \* where the last crash interrupted the thread
      last_fire |-> None,     \* scheduler: the date the job last fired
      started  |-> 0 ]        \* endpoint: backfill tasks it created

-----------------------------------------------------------------------------
(* inventory_item *)

\* An inventory of n distinct names 1..n, one row each, no cost recorded.
PlainInventory(n) ==
    [i \in 1..n |-> [id |-> i, name |-> i, eff_price |-> None,
                     target_pnl_pct |-> None, purchase_date |-> None,
                     first_seen_at |-> 0]]

\* An inventory of n rows over the names 1..m: several units of the same item.
RepeatInventory(n, m) ==
    [i \in 1..n |-> [id |-> i, name |-> ((i - 1) % m) + 1, eff_price |-> None,
                     target_pnl_pct |-> None, purchase_date |-> None,
                     first_seen_at |-> 0]]

\* The names of the rows lo..hi that no earlier row carries, in row order.
RECURSIVE DistinctIn(_, _, _)
DistinctIn(inv, lo, hi) ==
    IF lo > hi THEN <<>>
    ELSE IF lo = hi
         THEN IF \E j \in 1..(lo - 1) : inv[j].name = inv[lo].name
              THEN <<>> ELSE <<inv[lo].name>>
         ELSE DistinctIn(inv, lo, (lo + hi) \div 2)
                  \o DistinctIn(inv, (lo + hi) \div 2 + 1, hi)

\* SELECT market_hash_name ... DISTINCT, in order of first appearance.
DistinctNames(inv) == DistinctIn(inv, 1, Len(inv))

ActiveNames == DistinctNames(inventory)

-----------------------------------------------------------------------------
(* price_snapshot: unique per (name, platform, minute), upsert overwrites *)

TickKey(r) == <<r.name, r.platform, r.minute>>

UpsertTicks(store, rows) ==
    {r \in store : \A n \in rows : TickKey(n) # TickKey(r)} \cup rows

\* What the upstream batch API answers for a chunk: the listings of the first
\* name of the chunk on one platform (the answer may leave names out).
BatchResponses(chunk) ==
    { {[name |-> chunk[1], platform |-> "P1", sell_price |-> Some(p),
        sell_count |-> Some(1), bidding_count |-> Some(1)]} : p \in {1000} }

\* _upsert_price_snapshots: the rows of an answer, stamped with the minute.
SnapshotRows(resp, minute) ==
    {[name |-> r.name, platform |-> r.platform, minute |-> minute,
      sell_price |-> r.sell_price, sell_count |-> r.sell_count,
      bidding_count |-> r.bidding_count] : r \in resp}

-----------------------------------------------------------------------------
(* collect_prices *)

\* Batches of one name more than the upstream call takes.
ChunksTooLong(names) ==
    [k \in 1..((Len(names) + ChunkSize) \div (ChunkSize + 1)) |->
        SubSeq(names, (k - 1) * (ChunkSize + 1) + 1,
               Min2(k * (ChunkSize + 1), Len(names)))]

\* chunks = [hash_names[i:i + 100] for i in range(0, len(hash_names), 100)]
Chunks(names) ==
    [k \in 1..((Len(names) + ChunkSize - 1) \div ChunkSize) |->
        SubSeq(names, (k - 1) * ChunkSize + 1, Min2(k * ChunkSize, Len(names)))]

\* Every attempt counts, failed or not.
AfterBatchCountsAll(cs, ok, n) ==
    [cs EXCEPT !.items_collected = @ + n, !.batches_done = @ + 1]

\* A successful batch counts its items but not itself.
AfterBatchItemsOnly(cs, ok, n) ==
    IF ok THEN [cs EXCEPT !.items_collected = @ + n] ELSE cs

\* The counters after a batch attempt: only a successful batch counts.
AfterBatch(cs, ok, n) ==
    IF ok
    THEN [cs EXCEPT !.items_collected = @ + n, !.batches_done = @ + 1]
    ELSE cs

\* A cool-down only after a batch that succeeded.
NeedsCooldownOnSuccess(ok, idx, total) == ok /\ idx # total

\* "if chunk is not chunks[-1]": a cool-down follows every batch but the last.
NeedsCooldown(ok, idx, total) == idx # total

\* The scheduler starts the job; without an API key it returns at once.
CollectStart(t) ==
    /\ pc[t] = "idle"
    /\ IF ~api_key
       THEN /\ obs' = [obs EXCEPT ![t] = [NoObs EXCEPT !.outcome = "declined"]]
            /\ UNCHANGED <<pc, loc, collector_state>>
       ELSE /\ collector_state' = [collector_state EXCEPT
                                      !.status = "running",
                                      !.last_error = None,
                                      !.items_collected = 0]
            /\ pc' = [pc EXCEPT ![t] = "c_query"]
            /\ loc' = [loc EXCEPT ![t] = NoLocals]
            /\ obs' = [obs EXCEPT ![t] = [NoObs EXCEPT !.outcome = "running"]]
    /\ UNCHANGED <<now, config, tables, backfill_state>>

\* The query of the active names, the early return and the partition.
CollectQuery(t) ==
    /\ pc[t] = "c_query"
    /\ \E names \in {ActiveNames} : \E chunks \in {Chunks(names)} :
           IF names = <<>>
           THEN /\ collector_state' = [collector_state EXCEPT !.status = "idle"]
                /\ pc' = [pc EXCEPT ![t] = "idle"]
                /\ obs' = [obs EXCEPT ![t].outcome = "returned"]
                /\ UNCHANGED loc
           ELSE /\ collector_state' = [collector_state EXCEPT
                                          !.batches_total = Len(chunks),
                                          !.batches_done = 0]
                /\ loc' = [loc EXCEPT ![t].hash_names = names,
                                      ![t].chunks = chunks,
                                      ![t].idx = 1]
                /\ pc' = [pc EXCEPT ![t] = "c_call"]
                /\ UNCHANGED obs
    /\ UNCHANGED <<now, config, tables, backfill_state>>

\* The query raises: the outer handler reports the error.
CollectQueryFails(t) ==
    /\ pc[t] = "c_query"
    /\ collector_state' = [collector_state EXCEPT
                              !.status = "error", !.last_error = Some("db")]
    /\ pc' = [pc EXCEPT ![t] = "idle"]
    /\ obs' = [obs EXCEPT ![t].outcome = "returned"]
    /\ UNCHANGED <<now, config, tables, backfill_state, loc>>

\* The cycle ends without a word on the status.
NextBatchLeavesStatus(t, l, cs) ==
    IF l.idx < Len(l.chunks)
    THEN /\ collector_state' = cs
         /\ loc' = [loc EXCEPT ![t] = [l EXCEPT !.idx = @ + 1]]
         /\ pc' = [pc EXCEPT ![t] = "c_call"]
         /\ obs' = obs
    ELSE /\ collector_state' = [cs EXCEPT !.last_run = Some(now)]
         /\ loc' = [loc EXCEPT ![t] = l]
         /\ pc' = [pc EXCEPT ![t] = "idle"]
         /\ obs' = [obs EXCEPT ![t].outcome = "returned"]

\* The loop goes on to the next batch, or the cycle ends: status idle, last_run.
NextBatch(t, l, cs) ==
    IF l.idx < Len(l.chunks)
    THEN /\ collector_state' = cs
         /\ loc' = [loc EXCEPT ![t] = [l EXCEPT !.idx = @ + 1]]
         /\ pc' = [pc EXCEPT ![t] = "c_call"]
         /\ obs' = obs
    ELSE /\ collector_state' = [cs EXCEPT !.status = "idle", !.last_run = Some(now)]
         /\ loc' = [loc EXCEPT ![t] = l]
         /\ pc' = [pc EXCEPT ![t] = "idle"]
         /\ obs' = [obs EXCEPT ![t].outcome = "returned"]

\* The end of a batch attempt: the cool-down, or straight on.
BatchDone(t, ok, cs) ==
    LET l == [loc[t] EXCEPT !.results = Append(@, ok), !.last_end = Some(now),
                            !.call_start = None]
    IN  IF NeedsCooldown(ok, l.idx, Len(l.chunks))
        THEN /\ collector_state' = cs
             /\ loc' = [loc EXCEPT ![t] = [l EXCEPT !.wake = now + SleepSeconds]]
             /\ pc' = [pc EXCEPT ![t] = "c_sleep"]
             /\ obs' = obs
        ELSE NextBatch(t, l, cs)

\* fetch_batch_prices begins: the size check, then the upstream call.
CollectCall(t) ==
    /\ pc[t] = "c_call"
    /\ LET chunk == loc[t].chunks[loc[t].idx]
       IN  IF Len(chunk) > MaxBatch
           THEN BatchDone(t, FALSE, collector_state)
           ELSE /\ loc' = [loc EXCEPT ![t].call_start = Some(now)]
                /\ pc' = [pc EXCEPT ![t] = "c_resp"]
                /\ obs' = [obs EXCEPT ![t].called = TRUE]
                /\ UNCHANGED collector_state
    /\ UNCHANGED <<now, config, tables, backfill_state>>

\* The upstream call answers: the ticks are upserted and the batch counts.
CollectRespOk(t) ==
    /\ pc[t] = "c_resp"
    /\ LET chunk == loc[t].chunks[loc[t].idx]
       IN  \E resp \in BatchResponses(chunk) :
              /\ price_snapshot' =
                     UpsertTicks(price_snapshot, SnapshotRows(resp, Minute(now)))
              /\ BatchDone(t, TRUE, AfterBatch(collector_state, TRUE, Len(chunk)))
    /\ UNCHANGED <<now, config, price_history, quant_signal, quant_alert,
                   item_avg_price, backfill_state>>

\* The upstream call fails: logged, nothing written, nothing counted.
CollectRespFails(t) ==
    /\ pc[t] = "c_resp"
    /\ LET chunk == loc[t].chunks[loc[t].idx]
       IN  BatchDone(t, FALSE, AfterBatch(collector_state, FALSE, Len(chunk)))
    /\ UNCHANGED <<now, config, tables, backfill_state>>

\* asyncio.sleep(62) returns, not before its time; the loop goes on.
CollectWake(t) ==
    /\ pc[t] = "c_sleep"
    /\ now >= loc[t].wake
    /\ NextBatch(t, loc[t], collector_state)
    /\ UNCHANGED <<now, config, tables, backfill_state>>

\* Time passes.
LoopTick ==
    /\ \E d \in LoopSteps : now + d <= MaxNow /\ now' = now + d
    /\ UNCHANGED <<config, tables, collector_state, backfill_state, pc, loc, obs>>

-----------------------------------------------------------------------------
(* Sequences and sums *)

RECURSIVE SeqSum(_)
SeqSum(s) == IF s = <<>> THEN 0 ELSE Head(s) + SeqSum(Tail(s))

LastN(s, n) == SubSeq(s, Len(s) - n + 1, Len(s))

\* The elements of a set of integers in ascending order.
RECURSIVE Ascending(_)
Ascending(S) ==
    IF S = {} THEN <<>> ELSE LET x == SetMin(S) IN <<x>> \o Ascending(S \ {x})

\* SUM(column) over rows: NULLs are skipped, and the sum of none is NULL.
RECURSIVE SumColumn(_, _)
SumColumn(rows, f) ==
    IF rows = {} THEN 0
    ELSE LET r == CHOOSE x \in rows : TRUE
         IN  (IF IsSome(r[f]) THEN Val(r[f]) ELSE 0) + SumColumn(rows \ {r}, f)

SumOrNull(rows, f) ==
    IF \A r \in rows : r[f] = None THEN None ELSE Some(SumColumn(rows, f))

\* a / b rounded to the nearest integer (b > 0).
RoundDiv(a, b) == (2 * a + b) \div (2 * b)

\* The integer square root.
RECURSIVE SqrtSearch(_, _, _)
SqrtSearch(n, lo, hi) ==
    IF lo >= hi THEN lo
    ELSE LET mid == (lo + hi + 1) \div 2
         IN  IF mid * mid <= n THEN SqrtSearch(n, mid, hi)
             ELSE SqrtSearch(n, lo, mid - 1)

ISqrt(n) == SqrtSearch(n, 0, Min2(n, 46340))

-----------------------------------------------------------------------------
(* price_history: unique per (name, platform, date) *)

BarKey(r) == <<r.name, r.platform, r.date>>

\* The columns an upsert of aggregate_daily overwrites on conflict.
AggregateSet == {"open", "close", "high", "low", "sell_count", "bidding_count"}

\* The columns an upsert of the backfill overwrites on conflict.
BackfillSet == {"open", "close", "high", "low"}

\* The insert leaves a row whose key exists as it was.
UpsertBarsKeepOld(store, rows, set_) ==
    store \cup {n \in rows : \A o \in store : BarKey(o) # BarKey(n)}

\* INSERT ... ON CONFLICT (name, platform, date) DO UPDATE SET set_ = excluded.
UpsertBars(store, rows, set_) ==
    LET Old(n) == CHOOSE o \in store : BarKey(o) = BarKey(n)
        Merge(n) == IF \E o \in store : BarKey(o) = BarKey(n)
                    THEN [f \in DOMAIN n |-> IF f \in set_ THEN n[f] ELSE Old(n)[f]]
                    ELSE n
    IN  {o \in store : \A n \in rows : BarKey(n) # BarKey(o)}
            \cup {Merge(n) : n \in rows}

-----------------------------------------------------------------------------
(* aggregate_daily: the two queries *)

\* The prefix is not matched: the ticks of every date.
DayTicksEveryDate(ticks, date) == ticks

\* snapshot_minute LIKE :prefix || '%'
DayTicks(ticks, date) == {r \in ticks : DateOfMinute(r.minute) = date}

\* The OHLC query: one row per (name, platform) with a priced tick that day.
AggregateRows(ticks, date) ==
    LET day == DayTicks(ticks, date)
        priced == {r \in day : IsSome(r.sell_price)}
        Row(g) ==
            LET mine == {r \in priced : r.name = g[1] /\ r.platform = g[2]}
                any == {r \in day : r.name = g[1] /\ r.platform = g[2]}
                first == CHOOSE r \in mine : \A q \in mine : r.minute <= q.minute
                last == CHOOSE r \in mine : \A q \in mine : r.minute >= q.minute
                latest == CHOOSE r \in any : \A q \in any : r.minute >= q.minute
                prices == {Val(r.sell_price) : r \in mine}
            IN  [name |-> g[1], platform |-> g[2], date |-> date,
                 open |-> Val(first.sell_price), close |-> Val(last.sell_price),
                 high |-> SetMax(prices), low |-> SetMin(prices),
                 sell_count |-> latest.sell_count,
                 bidding_count |-> latest.bidding_count]
    IN  {Row(g) : g \in {<<r.name, r.platform>> : r \in priced}}

\* The ALL row is computed from every bar of the date, its own old self included.
AllSourceEveryRow(bars, date) == {b \in bars : b.date = date}

\* WHERE record_date = :date AND platform != 'ALL'
AllSource(bars, date) == {b \in bars : b.date = date /\ b.platform # "ALL"}

\* The ALL row is computed from the platform bars of every date.
AllRowsEveryDate(bars, date) ==
    LET src == {b \in bars : b.platform # "ALL"}
        Row(n) ==
            LET mine == {b \in src : b.name = n}
            IN  [name |-> n, platform |-> "ALL", date |-> date,
                 open |-> SetMin({b.open : b \in mine}),
                 close |-> SetMin({b.close : b \in mine}),
                 high |-> SetMax({b.high : b \in mine}),
                 low |-> SetMin({b.low : b \in mine}),
                 sell_count |-> SumOrNull(mine, "sell_count"),
                 bidding_count |-> SumOrNull(mine, "bidding_count")]
    IN  {Row(n) : n \in {b.name : b \in src}}

\* The ALL query: per name the cross-platform minimum and the summed counts.
AllRows(bars, date) ==
    LET src == AllSource(bars, date)
        Row(n) ==
            LET mine == {b \in src : b.name = n}
            IN  [name |-> n, platform |-> "ALL", date |-> date,
                 open |-> SetMin({b.open : b \in mine}),
                 close |-> SetMin({b.close : b \in mine}),
                 high |-> SetMax({b.high : b \in mine}),
                 low |-> SetMin({b.low : b \in mine}),
                 sell_count |-> SumOrNull(mine, "sell_count"),
                 bidding_count |-> SumOrNull(mine, "bidding_count")]
    IN  {Row(n) : n \in {b.name : b \in src}}

-----------------------------------------------------------------------------
(* Indicators (quant_engine, pure helpers).  The code computes in floating    *)
(* point; here prices are integers of cents and every percentage, score and  *)
(* ratio is an integer of hundredths (12.34 is 1234), with integer division. *)

\* The average of the values there are, however few.
_smaOfAny(values, period) ==
    IF values = <<>> THEN None ELSE Some(SeqSum(values) \div Len(values))

\* Simple moving average of the last period values.
_sma(values, period) ==
    IF Len(values) < period THEN None
    ELSE Some(SeqSum(LastN(values, period)) \div period)

\* Wilder's smoothing from index i on; the averages are in hundredths of a cent.
RECURSIVE Wilder(_, _, _, _)
Wilder(avg, xs, i, period) ==
    IF i > Len(xs) THEN avg
    ELSE Wilder((avg * (period - 1) + xs[i] * 100) \div period, xs, i + 1, period)

calc_rsi(closes, period) ==
    IF Len(closes) < period + 1 THEN None
    ELSE LET changes == [i \in 1..(Len(closes) - 1) |-> closes[i + 1] - closes[i]]
             gains == [i \in DOMAIN changes |-> Max2(changes[i], 0)]
             losses == [i \in DOMAIN changes |-> Max2(0 - changes[i], 0)]
             avg_gain == Wilder((SeqSum(SubSeq(gains, 1, period)) * 100) \div period,
                                gains, period + 1, period)
             avg_loss == Wilder((SeqSum(SubSeq(losses, 1, period)) * 100) \div period,
                                losses, period + 1, period)
         IN  IF avg_loss = 0 THEN Some(10000)
             ELSE Some((10000 * avg_gain) \div (avg_gain + avg_loss))

\* pct_b and bandwidth of the Bollinger band (MA, 2 sigma); std in tenths of a cent.
calc_bollinger(closes, period) ==
    IF Len(closes) < period THEN None
    ELSE LET window == LastN(closes, period)
             ma == SeqSum(window) \div period
             variance == SeqSum([i \in DOMAIN window |->
                                    (window[i] - ma) * (window[i] - ma)]) \div period
             std == ISqrt(variance * 100)
             lower == ma * 10 - 2 * std
             band_range == 4 * std
         IN  Some(IF band_range = 0
                  THEN [pct_b |-> 50, bandwidth |-> 0]
                  ELSE [pct_b |-> ((closes[Len(closes)] * 10 - lower) * 100)
                                      \div band_range,
                        bandwidth |-> IF ma # 0 THEN (band_range * 10) \div ma
                                      ELSE 0])

\* Rate of change against the close period days back, in percent.
calc_momentum(closes, period) ==
    IF Len(closes) <= period \/ closes[Len(closes) - period] = 0 THEN None
    ELSE LET ref == closes[Len(closes) - period]
         IN  Some(((closes[Len(closes)] - ref) * 10000) \div ref)

\* ln(a / b) in thousandths, by the series of 2 * atanh((a - b) / (a + b)).
LnSeries(a, b) ==
    LET z == ((a - b) * 10000) \div (a + b)
        z2 == (z * z) \div 10000
        z3 == (z * z2) \div 10000
        z5 == (z3 * z2) \div 10000
        z7 == (z5 * z2) \div 10000
        z9 == (z7 * z2) \div 10000
    IN  (2 * (z + z3 \div 3 + z5 \div 5 + z7 \div 7 + z9 \div 9)) \div 10

LnMilli(a, b) == IF a >= b THEN LnSeries(a, b) ELSE 0 - LnSeries(b, a)

\* Annualized volatility of the log returns of the last period days, in percent.
calc_volatility(closes, period) ==
    IF Len(closes) < period + 1 THEN None
    ELSE LET n == Len(closes)
             ks == SelectSeq([i \in 1..period |-> n - period + i],
                             LAMBDA k : closes[k - 1] > 0 /\ closes[k] > 0)
             log_returns == [i \in DOMAIN ks |-> LnMilli(closes[ks[i]], closes[ks[i] - 1])]
         IN  IF Len(log_returns) < 5 THEN None
             ELSE LET mean == SeqSum(log_returns) \div Len(log_returns)
                      variance == SeqSum([i \in DOMAIN log_returns |->
                                      (log_returns[i] - mean) * (log_returns[i] - mean)])
                                      \div Len(log_returns)
                  IN  Some(ISqrt(variance * 365) * 10)

-----------------------------------------------------------------------------
(* Composite scores *)

Clamp(lo, x, hi) == Max2(lo, Min2(hi, x))

\* return score
SellNoClamp(score) == score

\* return max(0.0, min(100.0, score))
SellClamp(score) == Clamp(0, score, 10000)

\* The loss halved, without the floor of -22.
SellProfitTermNoFloor(pnl_pct, target_pnl_pct) ==
    LET pnl == Val(pnl_pct)
    IN  IF IsSome(pnl_pct) /\ target_pnl_pct > 0
        THEN IF 2 * pnl >= 3 * target_pnl_pct THEN 3000
             ELSE IF pnl >= target_pnl_pct
                  THEN 2000 + ((pnl - target_pnl_pct) * 2000) \div target_pnl_pct
             ELSE IF pnl >= 0 THEN (pnl * 1200) \div target_pnl_pct
             ELSE pnl \div 2
        ELSE 0

\* Dimension 1, profit attainment: pnl% against the target.
SellProfitTerm(pnl_pct, target_pnl_pct) ==
    LET pnl == Val(pnl_pct)
    IN  IF IsSome(pnl_pct) /\ target_pnl_pct > 0
        THEN IF 2 * pnl >= 3 * target_pnl_pct THEN 3000
             ELSE IF pnl >= target_pnl_pct
                  THEN 2000 + ((pnl - target_pnl_pct) * 2000) \div target_pnl_pct
             ELSE IF pnl >= 0 THEN (pnl * 1200) \div target_pnl_pct
             ELSE Max2(0 - 2200, pnl \div 2)
        ELSE 0

\* The decay dimension without the condition on the days held.
SellDecayTermAnyAge(pnl_pct, annualized_return, days_held) ==
    LET ann == Val(annualized_return)
    IN  IF /\ IsSome(annualized_return)
           /\ (pnl_pct = None \/ Val(pnl_pct) >= 0)
        THEN IF ann < 1500 THEN 1500 - ann
             ELSE IF ann > 4500 THEN 0 - 500
             ELSE 0
        ELSE 0

\* Dimension 2, annualized-return decay: benchmark = 15.0.
SellDecayTerm(pnl_pct, annualized_return, days_held) ==
    LET ann == Val(annualized_return)
    IN  IF /\ IsSome(annualized_return)
           /\ days_held > 30
           /\ (pnl_pct = None \/ Val(pnl_pct) >= 0)
        THEN IF ann < 1500 THEN 1500 - ann
             ELSE IF ann > 4500 THEN 0 - 500
             ELSE 0
        ELSE 0

\* Dimension 3, the extra for many units of one item.
HoldingBonus(holding_count) ==
    IF holding_count > 50 THEN Min2(500, (holding_count - 50) * 5)
    ELSE IF holding_count > 20 THEN Min2(300, (holding_count - 20) * 10)
    ELSE 0

\* Dimension 3, concentration: the share of the portfolio value, and the units.
SellConcentrationTerm(concentration_pct, holding_count) ==
    LET conc == Val(concentration_pct)
    IN  IF IsSome(concentration_pct)
        THEN (IF conc > 1500 THEN Min2(2000, 1000 + (conc - 1500) \div 2)
              ELSE IF conc > 500 THEN conc - 500
              ELSE 0)
             + HoldingBonus(holding_count)
        ELSE 0

\* Dimension 4, abnormal movement: z-score, RSI, Bollinger position, momentum.
SellWaveTerm(volatility_zscore, rsi, bb_pos, momentum_30) ==
    LET z == Val(volatility_zscore)
        wave_z == IF IsSome(volatility_zscore)
                  THEN IF z > 200 THEN Min2(z * 4, 1500)
                       ELSE IF z > 100 THEN (z - 100) * 8
                       ELSE IF z < 0 - 150 THEN 0 - Min2((0 - z) * 2, 600)
                       ELSE 0
                  ELSE 0
        wave_rsi == IF IsSome(rsi)
                    THEN IF Val(rsi) > 7500
                         THEN Min2(((Val(rsi) - 7500) * 4) \div 10, 500)
                         ELSE IF Val(rsi) < 2500
                              THEN 0 - Min2(((2500 - Val(rsi)) * 24) \div 100, 600)
                         ELSE 0
                    ELSE 0
        wave_bb == IF IsSome(bb_pos)
                   THEN IF Val(bb_pos) > 90 THEN Min2((Val(bb_pos) - 90) * 30, 300)
                        ELSE IF Val(bb_pos) < 10
                             THEN 0 - Min2((10 - Val(bb_pos)) * 15, 300)
                        ELSE 0
                   ELSE 0
        wave_mom == IF IsSome(momentum_30) /\ Val(momentum_30) > 1500
                    THEN Min2(((Val(momentum_30) - 1500) * 15) \div 100, 200)
                    ELSE 0
    IN  Clamp(0 - 1200, wave_z + wave_rsi + wave_bb + wave_mom, 2500)

\* Dimension 5, market impact: the holding against the listings on sale.
SellImpactTerm(market_share_pct) ==
    IF IsSome(market_share_pct)
    THEN IF Val(market_share_pct) > 3000 THEN 500
         ELSE IF Val(market_share_pct) > 1000
              THEN (Val(market_share_pct) - 1000) \div 4
         ELSE 0
    ELSE 0

\* score = 45.0, plus the five dimensions, before the final clamp.
SellRaw(pnl_pct, target_pnl_pct, annualized_return, days_held, concentration_pct, holding_count, volatility_zscore, rsi, bb_pos, momentum_30, market_share_pct) ==
    4500 + SellProfitTerm(pnl_pct, target_pnl_pct)
         + SellDecayTerm(pnl_pct, annualized_return, days_held)
         + SellConcentrationTerm(concentration_pct, holding_count)
         + SellWaveTerm(volatility_zscore, rsi, bb_pos, momentum_30)
         + SellImpactTerm(market_share_pct)

compute_sell_score(pnl_pct, target_pnl_pct, annualized_return, days_held, concentration_pct, holding_count, volatility_zscore, rsi, bb_pos, momentum_30, market_share_pct) ==
    SellClamp(SellRaw(pnl_pct, target_pnl_pct, annualized_return, days_held,
                      concentration_pct, holding_count, volatility_zscore, rsi,
                      bb_pos, momentum_30, market_share_pct))

\* Term 5 of the opportunity score, the PnL trough.
OppTroughTerm(pnl_pct, target_pnl_pct) ==
    LET pnl == Val(pnl_pct)
    IN  IF IsSome(pnl_pct) /\ target_pnl_pct > 0
        THEN IF pnl < 0 - 2000 THEN Min2((0 - pnl - 2000) \div 2, 2000)
             ELSE IF pnl < 0 - 500 THEN ((0 - pnl - 500) * 67) \div 100
             ELSE IF pnl > target_pnl_pct
                  THEN 0 - Min2(((pnl - target_pnl_pct) * 3) \div 10, 1500)
             ELSE 0
        ELSE 0

compute_opportunity_score(rsi, bb_pos, momentum_7, spread_pct, pnl_pct, target_pnl_pct) ==
    LET o_rsi == IF IsSome(rsi) /\ Val(rsi) < 3000
                 THEN Min2(((3000 - Val(rsi)) * 83) \div 100, 2500) ELSE 0
        o_bb == IF IsSome(bb_pos) /\ Val(bb_pos) < 0
                THEN Min2((0 - Val(bb_pos)) * 20, 2000) ELSE 0
        o_mom == IF IsSome(momentum_7) /\ Val(momentum_7) < 0 - 500
                 THEN Min2(((0 - Val(momentum_7) - 500) * 75) \div 100, 1500) ELSE 0
        o_spread == IF IsSome(spread_pct) /\ Val(spread_pct) > 500
                    THEN Min2(((Val(spread_pct) - 500) * 12) \div 10, 2000) ELSE 0
    IN  Clamp(0, 5000 + o_rsi + o_bb + o_mom + o_spread
                      + OppTroughTerm(pnl_pct, target_pnl_pct), 10000)

-----------------------------------------------------------------------------
(* compute_all_signals: the portfolio context *)

InvNames(inv) == {inv[i].name : i \in DOMAIN inv}
NameRows(inv, name) == SelectSeq(inv, LAMBDA r : r.name = name)

\* GROUP BY market_hash_name: the bare columns come from one row of the group;
\* the inventories of this model give the rows of a name the same cost and target.
GroupRow(inv, name) == NameRows(inv, name)[1]

\* A dict as a set of <<key, value>> pairs, and dict.get(key).
Lookup(map, key) ==
    IF \E p \in map : p[1] = key
    THEN Some((CHOOSE p \in map : p[1] = key)[2])
    ELSE None

\* purchase_map: the effective cost of a name, where recorded and positive.
PurchaseMap(inv) ==
    {<<n, Val(GroupRow(inv, n).eff_price)>> :
        n \in {m \in InvNames(inv) : /\ IsSome(GroupRow(inv, m).eff_price)
                                     /\ Val(GroupRow(inv, m).eff_price) > 0}}

\* target_map.get(name, 30.0)
TargetOf(inv, name) ==
    IF name \in InvNames(inv) /\ IsSome(GroupRow(inv, name).target_pnl_pct)
    THEN Val(GroupRow(inv, name).target_pnl_pct)
    ELSE 3000

\* days_held_map.get(name, 0): from the earliest purchase_date, else first_seen_at.
DaysHeld(inv, name, t) ==
    IF name \notin InvNames(inv) THEN 0
    ELSE LET rows == Range(NameRows(inv, name))
             dates == {Val(r.purchase_date) : r \in {q \in rows : IsSome(q.purchase_date)}}
         IN  IF dates # {}
             THEN Max2(1, (t - SetMin(dates) * DaySecs) \div DaySecs)
             ELSE Max2(1, (t - SetMin({r.first_seen_at : r \in rows})) \div DaySecs)

\* holding_count_map.get(name, 0)
HoldingCount(inv, name) == Len(NameRows(inv, name))

\* The latest tick of every (name, platform).
LatestPerPlatform(ticks) ==
    {r \in ticks : \A q \in ticks :
        (q.name = r.name /\ q.platform = r.platform) => q.minute <= r.minute}

\* _calc_market_count_map(...).get(name, 0)
MarketCount(ticks, name) ==
    SumColumn({r \in LatestPerPlatform(ticks) :
                  r.name = name /\ IsSome(r.sell_count) /\ Val(r.sell_count) > 0},
              "sell_count")

\* _calc_spread_map(...).get(name): (max - min) / min * 100 over >= 2 platforms.
Spread(ticks, name) ==
    LET prices == {Val(r.sell_price) :
                     r \in {q \in LatestPerPlatform(ticks) :
                              q.name = name /\ IsSome(q.sell_price)
                                /\ Val(q.sell_price) > 0}}
        rows == {q \in LatestPerPlatform(ticks) :
                    q.name = name /\ IsSome(q.sell_price) /\ Val(q.sell_price) > 0}
    IN  IF Cardinality(rows) >= 2
        THEN Some(((SetMax(prices) - SetMin(prices)) * 10000) \div SetMin(prices))
        ELSE None

\* _get_latest_prices(...).get(name): the lowest price at the name's latest minute.
LatestPrice(ticks, name) ==
    LET mine == {r \in ticks : r.name = name}
        rows == {r \in mine : /\ \A q \in mine : q.minute <= r.minute
                              /\ IsSome(r.sell_price)
                              /\ Val(r.sell_price) > 0}
    IN  IF rows = {} THEN None ELSE Some(SetMin({Val(r.sell_price) : r \in rows}))

\* item_market_value.get(name, 0) and total_portfolio_value
ItemMarketValue(inv, ticks, name) ==
    IF name \in InvNames(inv) /\ IsSome(LatestPrice(ticks, name))
    THEN Val(LatestPrice(ticks, name)) * HoldingCount(inv, name)
    ELSE 0

TotalPortfolioValue(inv, ticks) ==
    LET names == Ascending(InvNames(inv))
    IN  SeqSum([i \in DOMAIN names |-> ItemMarketValue(inv, ticks, names[i])])

\* _classify_item: the category of a name (the names of the model are numbers).
_classify_item(name) == IF name % 2 = 1 THEN "rifle" ELSE "other"

\* (total_return ** (365 / days_held) - 1) * 100, where the power is rational:
\* an item held 365 days, or one whose price has not moved.
AnnualizedReturn(current, buy, days_held) ==
    CASE days_held = 365 -> ((current - buy) * 10000) \div buy
      [] days_held # 365 /\ current = buy -> 0

-----------------------------------------------------------------------------
(* _compute_item_indicators *)

\* The closes of the ALL bars of a name by ascending date, the positive ones.
Closes(bars, name) ==
    LET mine == {b \in bars : b.name = name /\ b.platform = "ALL"}
        dates == Ascending({b.date : b \in mine})
        all == [i \in DOMAIN dates |-> (CHOOSE b \in mine : b.date = dates[i]).close]
    IN  SelectSeq(all, LAMBDA c : c > 0)

\* "if len(closes) < 3: return None"
TooFewCloses(closes) == Len(closes) < 3

ItemIndicators(bars, ticks, inv, name) ==
    LET closes == Closes(bars, name)
        current_price == closes[Len(closes)]
        bb == calc_bollinger(closes, 20)
        ath_price == SetMax(Range(closes))
        buy_price == Lookup(PurchaseMap(inv), name)
    IN  IF TooFewCloses(closes) THEN None
        ELSE Some([current_price |-> current_price,
                   rsi |-> calc_rsi(closes, 14),
                   bb_pos |-> IF IsSome(bb) THEN Some(Val(bb).pct_b) ELSE None,
                   bb_width |-> IF IsSome(bb) THEN Some(Val(bb).bandwidth) ELSE None,
                   momentum_7 |-> calc_momentum(closes, 7),
                   momentum_30 |-> calc_momentum(closes, 30),
                   volatility_30 |-> calc_volatility(closes, 30),
                   ma_7 |-> _sma(closes, 7),
                   ma_30 |-> _sma(closes, 30),
                   ath_price |-> Some(ath_price),
                   ath_pct |-> IF ath_price > 0
                               THEN Some((current_price * 10000) \div ath_price)
                               ELSE None,
                   spread |-> Spread(ticks, name),
                   pnl_pct |-> IF IsSome(buy_price)
                               THEN Some(((current_price - Val(buy_price)) * 10000)
                                            \div Val(buy_price))
                               ELSE None])

-----------------------------------------------------------------------------
(* compute_all_signals: the second pass and the rows it writes *)

\* The z-score of a volatility among its peers (three or more, not all equal).
VolZ(vol, peers) ==
    IF Len(peers) < 3 THEN None
    ELSE LET mean == SeqSum(peers) \div Len(peers)
             std == ISqrt(SeqSum([i \in DOMAIN peers |->
                            (peers[i] - mean) * (peers[i] - mean)]) \div Len(peers))
         IN  IF std > 0 THEN Some(((vol - mean) * 100) \div std) ELSE None

\* item_data: the indicators of every name, as the first pass leaves them.
ItemData(bars, ticks, inv, all_names) ==
    [n \in all_names |-> ItemIndicators(bars, ticks, inv, n)]

\* peer_vol_groups[cat]: the volatilities of the names of a category.
PeerVols(item_data, cat) ==
    LET with == {n \in DOMAIN item_data :
                   /\ _classify_item(n) = cat
                   /\ IsSome(item_data[n])
                   /\ IsSome(Val(item_data[n]).volatility_30)}
        names == Ascending(with)
    IN  [i \in DOMAIN names |-> Val(Val(item_data[names[i]]).volatility_30)]

\* The values dict of one name: indicators, context and the two scores.
SignalRow(item_data, ticks, inv, name, date, t) ==
    LET ind == Val(item_data[name])
        vol_z == IF IsSome(ind.volatility_30)
                 THEN VolZ(Val(ind.volatility_30),
                           PeerVols(item_data, _classify_item(name)))
                 ELSE None
        target == TargetOf(inv, name)
        days_held == DaysHeld(inv, name, t)
        h_count == HoldingCount(inv, name)
        total == TotalPortfolioValue(inv, ticks)
        conc == IF total > 0
                THEN Some(RoundDiv(ItemMarketValue(inv, ticks, name) * 10000, total))
                ELSE None
        mkt_cnt == MarketCount(ticks, name)
        mkt_share == IF mkt_cnt > 0 /\ h_count > 0
                     THEN Some(RoundDiv(h_count * 10000, mkt_cnt))
                     ELSE None
        buy_price == Lookup(PurchaseMap(inv), name)
        ann_ret == IF IsSome(buy_price) /\ days_held > 0 /\ ind.current_price > 0
                   THEN Some(AnnualizedReturn(ind.current_price, Val(buy_price),
                                              days_held))
                   ELSE None
    IN  [name |-> name,
         date |-> date,
         rsi_14 |-> ind.rsi,
         bb_position |-> ind.bb_pos,
         bb_width |-> ind.bb_width,
         momentum_7 |-> ind.momentum_7,
         momentum_30 |-> ind.momentum_30,
         volatility_30 |-> ind.volatility_30,
         ma_7 |-> ind.ma_7,
         ma_30 |-> ind.ma_30,
         ath_price |-> ind.ath_price,
         ath_pct |-> ind.ath_pct,
         spread_pct |-> ind.spread,
         annualized_return |-> ann_ret,
         holding_count |-> IF h_count > 0 THEN Some(h_count) ELSE None,
         concentration_pct |-> conc,
         market_share_pct |-> mkt_share,
         volatility_zscore |-> vol_z,
         sell_score |-> compute_sell_score(ind.pnl_pct, target, ann_ret, days_held,
                            conc, h_count, vol_z, ind.rsi, ind.bb_pos,
                            ind.momentum_30, mkt_share),
         opportunity_score |-> compute_opportunity_score(ind.rsi, ind.bb_pos,
                            ind.momentum_7, ind.spread, ind.pnl_pct, target)]

\* The first pass when _compute_item_indicators raises for the names in
\* failed: the except branch logs, and the name gets no entry in
\* item_indicator_cache, so it is no peer of the others either.
ItemDataExcept(bars, ticks, inv, all_names, failed) ==
    LET item_data == ItemData(bars, ticks, inv, all_names)
    IN  [n \in all_names |-> IF n \in failed THEN None ELSE item_data[n]]

\* The rows when an exception ends the loop it is raised in.
SignalRowsUntilFailure(bars, ticks, inv, all_names, date, t, ind_failed, score_failed) ==
    LET item_data == ItemData(bars, ticks, inv, all_names)
        first == IF ind_failed \cup score_failed = {} THEN 0
                 ELSE CHOOSE m \in ind_failed \cup score_failed :
                          \A k \in ind_failed \cup score_failed : m <= k
    IN  {SignalRow(item_data, ticks, inv, n, date, t) :
            n \in {m \in all_names : /\ IsSome(item_data[m])
                                     /\ first = 0 \/ m < first}}

\* The rows of the second pass when the indicators of ind_failed raised in
\* the first pass and the scores of score_failed raise in the second: each
\* try covers one item, and its except branch goes on with the next.
SignalRowsExcept(bars, ticks, inv, all_names, date, t, ind_failed, score_failed) ==
    LET item_data == ItemDataExcept(bars, ticks, inv, all_names, ind_failed)
    IN  {SignalRow(item_data, ticks, inv, n, date, t) :
            n \in {m \in all_names \ score_failed : IsSome(item_data[m])}}

\* One row for every name that has indicators.
SignalRows(bars, ticks, inv, all_names, date, t) ==
    LET item_data == ItemData(bars, ticks, inv, all_names)
    IN  {SignalRow(item_data, ticks, inv, n, date, t) :
            n \in {m \in all_names : IsSome(item_data[m])}}

-----------------------------------------------------------------------------
(* quant_signal: unique per (name, date) *)

SignalKey(r) == <<r.name, r.date>>

\* The upsert leaves the two scores of an existing row as they were.
SignalSetNoScores ==
    {"rsi_14", "bb_position", "bb_width", "momentum_7", "momentum_30",
     "volatility_30", "ma_7", "ma_30", "ath_price", "ath_pct", "spread_pct",
     "annualized_return", "holding_count", "concentration_pct",
     "market_share_pct", "volatility_zscore"}

\* set_ = every key of values but market_hash_name and signal_date
SignalSet ==
    {"rsi_14", "bb_position", "bb_width", "momentum_7", "momentum_30",
     "volatility_30", "ma_7", "ma_30", "ath_price", "ath_pct", "spread_pct",
     "annualized_return", "holding_count", "concentration_pct",
     "market_share_pct", "volatility_zscore", "sell_score", "opportunity_score"}

\* INSERT ... ON CONFLICT (name, date) DO UPDATE SET set_ = excluded.
UpsertSignals(store, rows, set_) ==
    LET Old(n) == CHOOSE o \in store : SignalKey(o) = SignalKey(n)
        Merge(n) == IF \E o \in store : SignalKey(o) = SignalKey(n)
                    THEN [f \in DOMAIN n |-> IF f \in set_ THEN n[f] ELSE Old(n)[f]]
                    ELSE n
    IN  {o \in store : \A n \in rows : SignalKey(n) # SignalKey(o)}
            \cup {Merge(n) : n \in rows}

-----------------------------------------------------------------------------
(* Alerts *)

_ALERT_RULES ==
    << [alert_type |-> "profit_50", severity |-> "warning",
        field |-> "pnl_pct", op |-> ">", threshold |-> 5000],
       [alert_type |-> "profit_100", severity |-> "critical",
        field |-> "pnl_pct", op |-> ">", threshold |-> 10000],
       [alert_type |-> "near_ath", severity |-> "warning",
        field |-> "ath_pct", op |-> ">", threshold |-> 9000],
       [alert_type |-> "rsi_overbought", severity |-> "warning",
        field |-> "rsi_14", op |-> ">", threshold |-> 7500],
       [alert_type |-> "rsi_oversold", severity |-> "info",
        field |-> "rsi_14", op |-> "<", threshold |-> 2500],
       [alert_type |-> "momentum_surge", severity |-> "warning",
        field |-> "momentum_7", op |-> ">", threshold |-> 2000],
       [alert_type |-> "spread_arb", severity |-> "info",
        field |-> "spread_pct", op |-> ">", threshold |-> 1500] >>

\* The thresholds of compute_quick_pnl_alerts, the highest first.
QuickRules ==
    << [alert_type |-> "profit_100", severity |-> "critical",
        field |-> "pnl_pct", op |-> ">", threshold |-> 10000],
       [alert_type |-> "profit_50", severity |-> "warning",
        field |-> "pnl_pct", op |-> ">", threshold |-> 5000] >>

\* A value at the threshold triggers as well.
TriggeredAtThreshold(rule, val) ==
    \/ rule.op = ">" /\ val >= rule.threshold
    \/ rule.op = "<" /\ val <= rule.threshold

\* (op == ">" and val > threshold) or (op == "<" and val < threshold)
Triggered(rule, val) ==
    \/ rule.op = ">" /\ val > rule.threshold
    \/ rule.op = "<" /\ val < rule.threshold

\* (current - buy) / buy * 100 against the latest tick, where both are known.
TickPnl(buy, current) ==
    IF IsSome(buy) /\ Val(buy) > 0 /\ IsSome(current) /\ Val(current) > 0
    THEN Some(((Val(current) - Val(buy)) * 10000) \div Val(buy))
    ELSE None

\* The rules of a sequence that a dict of values triggers, in order.  A group
\* other than 0 marks the candidates of which only the first added one is kept.
Candidates(rules, name, vals, group) ==
    LET ValueOf(rule) == Lookup(vals, rule.field)
        hit == SelectSeq([i \in DOMAIN rules |-> i], LAMBDA i :
                   /\ IsSome(ValueOf(rules[i]))
                   /\ Triggered(rules[i], Val(ValueOf(rules[i]))))
    IN  [k \in DOMAIN hit |->
            [name |-> name,
             alert_type |-> rules[hit[k]].alert_type,
             severity |-> rules[hit[k]].severity,
             current_value |-> Val(ValueOf(rules[hit[k]])),
             threshold |-> rules[hit[k]].threshold,
             group |-> group]]

\* vals of a Signal row: the fields the rules look at that are not None.
SignalVals(sig, purchase_map, ticks) ==
    LET pnl == TickPnl(Lookup(purchase_map, sig.name), LatestPrice(ticks, sig.name))
        all == {<<"rsi_14", sig.rsi_14>>, <<"momentum_7", sig.momentum_7>>,
                <<"ath_pct", sig.ath_pct>>, <<"spread_pct", sig.spread_pct>>,
                <<"pnl_pct", pnl>>}
    IN  {<<p[1], Val(p[2])>> : p \in {q \in all : IsSome(q[2])}}

RECURSIVE SignalCandidates(_, _, _, _)
SignalCandidates(names, signals, purchase_map, ticks) ==
    IF names = <<>> THEN <<>>
    ELSE LET sig == CHOOSE s \in signals : s.name = Head(names)
         IN  Candidates(_ALERT_RULES, sig.name,
                        SignalVals(sig, purchase_map, ticks), 0)
             \o SignalCandidates(Tail(names), signals, purchase_map, ticks)

\* _generate_alerts: the triggered rules of the Signal rows of the date.
AlertCandidates(store, date, purchase_map, ticks) ==
    LET signals == {s \in store : s.date = date}
    IN  SignalCandidates(Ascending({s.name : s \in signals}), signals,
                         purchase_map, ticks)

\* compute_quick_pnl_alerts: per inventory row with a cost, the thresholds passed.
RECURSIVE QuickCandidates(_, _)
QuickCandidates(rows, ticks) ==
    IF rows = <<>> THEN <<>>
    ELSE LET r == Head(rows)
             current == LatestPrice(ticks, r.name)
             mine == IF IsSome(r.eff_price) /\ Val(r.eff_price) > 0 /\ IsSome(current)
                     THEN Candidates(QuickRules, r.name,
                              {<<"pnl_pct", Val(TickPnl(r.eff_price, current))>>}, r.id)
                     ELSE <<>>
         IN  mine \o QuickCandidates(Tail(rows), ticks)

\* "if not price_map: return 0"
PriceMapEmpty(ticks) == \A n \in {r.name : r \in ticks} : LatestPrice(ticks, n) = None

\* No earlier alert ever counts as recent.
RecentNever(alerts, c, t) == FALSE

\* The duplicate check: an alert of the name and kind created in the last 24 h.
Recent(alerts, c, t) ==
    \E i \in DOMAIN alerts : /\ alerts[i].name = c.name
                             /\ alerts[i].alert_type = c.alert_type
                             /\ alerts[i].created_at > t - DaySecs

\* The QuantAlert row of a candidate, created_at by the server default.
NewAlert(c, t) ==
    [name |-> c.name, alert_type |-> c.alert_type, severity |-> c.severity,
     current_value |-> c.current_value, threshold |-> c.threshold, created_at |-> t]

\* "break  # Only highest alert per item": the rest of the row is dropped.
AfterAdd(cands, c) ==
    IF c.group = 0 THEN cands ELSE SelectSeq(cands, LAMBDA d : d.group # c.group)

\* The rest of an alert loop inside one transaction: each check sees the
\* committed alerts and the ones this session has flushed.
RECURSIVE RunChecks(_, _, _)
RunChecks(cands, alerts, t) ==
    IF cands = <<>> THEN alerts
    ELSE IF Recent(alerts, Head(cands), t)
         THEN RunChecks(Tail(cands), alerts, t)
         ELSE RunChecks(AfterAdd(Tail(cands), Head(cands)),
                        Append(alerts, NewAlert(Head(cands), t)), t)

-----------------------------------------------------------------------------
(* Calls and returns of the pipeline coroutines *)

\* What a finished aggregate_daily leaves behind (observation only; the last two).
PushRun(o, date, bars) ==
    LET run == [date |-> date, ticks |-> price_snapshot,
                bars |-> {b \in bars : b.date = date}]
    IN  [o EXCEPT !.runs = IF Len(@) < 2 THEN Append(@, run) ELSE <<@[2], run>>]

\* The callee returns and the caller runs on to its next await:
\*   compute_now after aggregate_daily calls compute_signals, after that
\*   compute_quick_pnl_alerts, after that it answers;
\*   the backfill after compute_all_signals reports "done";
\*   a scheduler job ends.
Return(t, l, o) ==
    LET base == ClearCallee(l)
    IN  CASE l.ret = "n_signals" ->
               /\ pc' = [pc EXCEPT ![t] = "s_names"]
               /\ loc' = [loc EXCEPT ![t] = [base EXCEPT
                             !.ret = "n_quick", !.target_date = Some(Date(now))]]
               /\ obs' = [obs EXCEPT ![t] = o]
               /\ UNCHANGED backfill_state
          [] l.ret = "n_quick" ->
               /\ pc' = [pc EXCEPT ![t] = "q_read"]
               /\ loc' = [loc EXCEPT ![t] = [base EXCEPT !.ret = "n_done"]]
               /\ obs' = [obs EXCEPT ![t] = o]
               /\ UNCHANGED backfill_state
          [] l.ret = "b_done" ->
               /\ pc' = [pc EXCEPT ![t] = "idle"]
               /\ loc' = [loc EXCEPT ![t] = NoLocals]
               /\ obs' = [obs EXCEPT ![t] = [o EXCEPT !.outcome = "returned"]]
               /\ backfill_state' = [backfill_state EXCEPT
                      !.status = "done",
                      !.progress = <<"Completed", l.generated, Len(l.hash_names)>>]
          [] l.ret \in {"n_done", "idle"} ->
               /\ pc' = [pc EXCEPT ![t] = "idle"]
               /\ loc' = [loc EXCEPT ![t] = NoLocals]
               /\ obs' = [obs EXCEPT ![t] = [o EXCEPT !.outcome = "returned"]]
               /\ UNCHANGED backfill_state

-----------------------------------------------------------------------------
(* aggregate_daily *)

\* The OHLC query, going on to the upserts whatever it found.
AggQueryGoesOn(t) ==
    /\ pc[t] = "a_query"
    /\ loc' = [loc EXCEPT ![t].rows =
                  AggregateRows(price_snapshot, Val(loc[t].target_date))]
    /\ pc' = [pc EXCEPT ![t] = "a_upsert"]
    /\ UNCHANGED <<now, config, tables, collector_state, obs, backfill_state>>

\* The OHLC query; without rows the job returns 0.
AggQuery(t) ==
    /\ pc[t] = "a_query"
    /\ LET date == Val(loc[t].target_date)
           rows == AggregateRows(price_snapshot, date)
       IN  IF rows = {}
           THEN Return(t, loc[t], PushRun(obs[t], date, price_history))
           ELSE /\ loc' = [loc EXCEPT ![t].rows = rows]
                /\ pc' = [pc EXCEPT ![t] = "a_upsert"]
                /\ UNCHANGED <<obs, backfill_state>>
    /\ UNCHANGED <<now, config, tables, collector_state>>

\* The per-platform upserts and the first commit.
AggUpsert(t) ==
    /\ pc[t] = "a_upsert"
    /\ price_history' = UpsertBars(price_history, loc[t].rows, AggregateSet)
    /\ loc' = [loc EXCEPT ![t].rows = {}]
    /\ pc' = [pc EXCEPT ![t] = "a_all_query"]
    /\ obs' = [obs EXCEPT ![t].wrote = TRUE]
    /\ UNCHANGED <<now, config, price_snapshot, quant_signal, quant_alert,
                   item_avg_price, collector_state, backfill_state>>

\* The query of the ALL rows.
AggAllQuery(t) ==
    /\ pc[t] = "a_all_query"
    /\ loc' = [loc EXCEPT ![t].rows = AllRows(price_history, Val(loc[t].target_date))]
    /\ pc' = [pc EXCEPT ![t] = "a_all_upsert"]
    /\ UNCHANGED <<now, config, tables, collector_state, backfill_state, obs>>

\* The upserts of the ALL rows, the second commit and the return.
AggAllUpsert(t) ==
    /\ pc[t] = "a_all_upsert"
    /\ price_history' = UpsertBars(price_history, loc[t].rows, AggregateSet)
    /\ Return(t, loc[t], PushRun(obs[t], Val(loc[t].target_date), price_history'))
    /\ UNCHANGED <<now, config, price_snapshot, quant_signal, quant_alert,
                   item_avg_price, collector_state>>

-----------------------------------------------------------------------------
(* compute_all_signals *)

\* The names with price_history; without any the job returns 0.
SigNames(t) ==
    /\ pc[t] = "s_names"
    /\ LET all_names == {b.name : b \in price_history}
       IN  IF all_names = {}
           THEN Return(t, loc[t], obs[t])
           ELSE /\ loc' = [loc EXCEPT ![t].all_names = all_names]
                /\ pc' = [pc EXCEPT ![t] = "s_read"]
                /\ UNCHANGED <<obs, backfill_state>>
    /\ UNCHANGED <<now, config, tables, collector_state>>

\* The context queries and the first pass over the names; the second pass
\* reads nothing more, so its rows are fixed here.
SigRead(t) ==
    /\ pc[t] = "s_read"
    /\ loc' = [loc EXCEPT
                 ![t].rows = SignalRows(price_history, price_snapshot, inventory,
                                 loc[t].all_names, Val(loc[t].target_date), now),
                 ![t].purchase_map = PurchaseMap(inventory)]
    /\ pc' = [pc EXCEPT ![t] = "s_write"]
    /\ UNCHANGED <<now, config, tables, collector_state, backfill_state, obs>>

\* The same when the items of some names raise: the indicators of ind_failed
\* in the first pass, the scores of score_failed in the second.
SigReadFails(t) ==
    /\ pc[t] = "s_read"
    /\ \E ind_failed \in SUBSET loc[t].all_names :
       \E score_failed \in SUBSET (loc[t].all_names \ ind_failed) :
          /\ ind_failed \cup score_failed # {}
          /\ loc' = [loc EXCEPT
                       ![t].rows = SignalRowsExcept(price_history, price_snapshot,
                                       inventory, loc[t].all_names,
                                       Val(loc[t].target_date), now,
                                       ind_failed, score_failed),
                       ![t].purchase_map = PurchaseMap(inventory),
                       ![t].failed = ind_failed \cup score_failed]
    /\ pc' = [pc EXCEPT ![t] = "s_write"]
    /\ UNCHANGED <<now, config, tables, collector_state, backfill_state, obs>>

\* The upserts of the second pass and the commit.
SigWrite(t) ==
    /\ pc[t] = "s_write"
    /\ quant_signal' = UpsertSignals(quant_signal, loc[t].rows, SignalSet)
    /\ loc' = [loc EXCEPT ![t].rows = {}, ![t].count = Cardinality(loc[t].rows)]
    /\ pc' = [pc EXCEPT ![t] = "g_read"]
    /\ obs' = [obs EXCEPT ![t].computed = @ \cup loc[t].rows, ![t].wrote = TRUE]
    /\ UNCHANGED <<now, config, price_snapshot, price_history, quant_alert,
                   item_avg_price, collector_state, backfill_state>>

\* _generate_alerts: the Signal rows of the date and the latest prices.
AlertRead(t) ==
    /\ pc[t] = "g_read"
    /\ loc' = [loc EXCEPT ![t].cands =
                 AlertCandidates(quant_signal, Val(loc[t].target_date),
                                 loc[t].purchase_map, price_snapshot)]
    /\ pc' = [pc EXCEPT ![t] = "g_check"]
    /\ UNCHANGED <<now, config, tables, collector_state, backfill_state, obs>>

\* compute_quick_pnl_alerts: the latest prices and the inventory rows.
QuickRead(t) ==
    /\ pc[t] = "q_read"
    /\ IF PriceMapEmpty(price_snapshot)
       THEN Return(t, loc[t], obs[t])
       ELSE /\ loc' = [loc EXCEPT ![t].cands =
                         QuickCandidates(inventory, price_snapshot)]
            /\ pc' = [pc EXCEPT ![t] = "q_check"]
            /\ UNCHANGED <<obs, backfill_state>>
    /\ UNCHANGED <<now, config, tables, collector_state>>

\* A duplicate check while the session has nothing pending: a plain read.
\* Without a recent alert the new one is db.add()ed, not yet written.
AlertCheck(t) ==
    /\ pc[t] \in {"g_check", "q_check"}
    /\ loc[t].pend = <<>>
    /\ loc[t].cands # <<>>
    /\ LET c == Head(loc[t].cands)
       IN  loc' = [loc EXCEPT ![t] =
                     IF Recent(quant_alert, c, now)
                     THEN [@ EXCEPT !.cands = Tail(@)]
                     ELSE [@ EXCEPT !.cands = AfterAdd(Tail(@), c), !.pend = <<c>>]]
    /\ UNCHANGED <<now, config, tables, collector_state, backfill_state, pc, obs>>

\* The pending alert is flushed, the rest of the loop runs in the transaction
\* the flush opened, and the commit ends it; the function returns.
AlertCommit(t) ==
    /\ pc[t] \in {"g_check", "q_check"}
    /\ loc[t].pend # <<>> \/ loc[t].cands = <<>>
    /\ LET flushed == quant_alert \o [i \in DOMAIN loc[t].pend |->
                                         NewAlert(loc[t].pend[i], now)]
       IN  quant_alert' = RunChecks(loc[t].cands, flushed, now)
    /\ Return(t, loc[t], [obs[t] EXCEPT !.wrote = @ \/ quant_alert' # quant_alert])
    /\ UNCHANGED <<now, config, price_snapshot, price_history, quant_signal,
                   item_avg_price, collector_state>>

-----------------------------------------------------------------------------
(* The compute-now handler and the scheduler *)

\* POST /compute-now: today = now, then aggregate_daily(today) is awaited.
ComputeNow(t) ==
    /\ pc[t] = "idle"
    /\ pc' = [pc EXCEPT ![t] = "a_query"]
    /\ loc' = [loc EXCEPT ![t] = [NoLocals EXCEPT
                  !.target_date = Some(Date(now)), !.ret = "n_signals"]]
    /\ obs' = [obs EXCEPT ![t] = [@ EXCEPT
                  !.outcome = "running",
                  !.pre = IF @ # <<>> THEN @
                          ELSE <<[bars |-> price_history, signals |-> quant_signal,
                                  alerts |-> quant_alert]>>]]
    /\ UNCHANGED <<now, config, tables, collector_state, backfill_state>>

AggregateAt == 300     \* cron hour=0, minute=5
SignalsAt == 600       \* cron hour=0, minute=10

\* The cron time of a job is now and the job has not yet fired today.
CronDue(t, at) == now % DaySecs = at /\ obs[t].last_fire # Some(Date(now))

\* A job fires; while its previous instance is running the run is skipped
\* (max_instances is 1).  aggregate_daily() takes yesterday.
SchedAggregate ==
    LET t == "daily_aggregate"
    IN  /\ CronDue(t, AggregateAt)
        /\ IF pc[t] # "idle"
           THEN /\ obs' = [obs EXCEPT ![t].last_fire = Some(Date(now))]
                /\ UNCHANGED <<pc, loc>>
           ELSE /\ pc' = [pc EXCEPT ![t] = "a_query"]
                /\ loc' = [loc EXCEPT ![t] = [NoLocals EXCEPT
                              !.target_date = Some(Date(now - DaySecs))]]
                /\ obs' = [obs EXCEPT ![t] = [@ EXCEPT
                              !.last_fire = Some(Date(now)), !.outcome = "running"]]
        /\ UNCHANGED <<now, config, tables, collector_state, backfill_state>>

\* compute_signals() calls compute_all_signals(), which takes today.
SchedSignals ==
    LET t == "daily_signals"
    IN  /\ CronDue(t, SignalsAt)
        /\ IF pc[t] # "idle"
           THEN /\ obs' = [obs EXCEPT ![t].last_fire = Some(Date(now))]
                /\ UNCHANGED <<pc, loc>>
           ELSE /\ pc' = [pc EXCEPT ![t] = "s_names"]
                /\ loc' = [loc EXCEPT ![t] = [NoLocals EXCEPT
                              !.target_date = Some(Date(now))]]
                /\ obs' = [obs EXCEPT ![t] = [@ EXCEPT
                              !.last_fire = Some(Date(now)), !.outcome = "running"]]
        /\ UNCHANGED <<now, config, tables, collector_state, backfill_state>>

\* Five minutes pass, within the minutes after midnight the cron jobs fire in.
ClockTick ==
    /\ now % DaySecs < SignalsAt
    /\ now' = now + (SignalsAt - AggregateAt)
    /\ UNCHANGED <<config, tables, collector_state, backfill_state, pc, loc, obs>>

\* The scheduler fires a job at its time: the clock does not pass a due job.
PipeTick ==
    /\ ~CronDue("daily_aggregate", AggregateAt)
    /\ ~CronDue("daily_signals", SignalsAt)
    /\ ClockTick

\* The process dies and is started again: the coroutines and the in-memory
\* state are gone, the committed tables stay.
Crash ==
    /\ \E t \in Threads : pc[t] # "idle"
    /\ \A t \in Threads : obs[t].crashes < MaxCrashes
    /\ pc' = [t \in Threads |-> "idle"]
    /\ loc' = [t \in Threads |-> NoLocals]
    /\ collector_state' = InitCollectorState
    /\ backfill_state' = InitBackfillState
    /\ obs' = [t \in Threads |-> [obs[t] EXCEPT
                  !.crashes = @ + 1,
                  !.crashed_at = IF pc[t] # "idle" THEN pc[t] ELSE @,
                  !.outcome = IF pc[t] # "idle" THEN "crashed" ELSE @]]
    /\ UNCHANGED <<now, config, tables>>

-----------------------------------------------------------------------------
(* backfill_avg_prices and its endpoint *)

BackfillThreads == {"bf1", "bf2"}

\* The three averages the backfill asks for, per name.
AvgDays == <<7, 30, 90>>

\* The work of the fetch loop: every name with every period, in loop order.
RECURSIVE FetchList(_)
FetchList(names) ==
    IF names = <<>> THEN <<>>
    ELSE [i \in 1..Len(AvgDays) |-> <<Head(names), AvgDays[i]>>]
             \o FetchList(Tail(names))

\* What upstream answers for a period (the averages of a falling price).
UpstreamAvg(days) == CASE days = 7 -> 1100 [] days = 30 -> 1000 [] days = 90 -> 900

\* Answers that leave no average in avg_data: none given, or one of zero.
EmptyAnswers == {None, Some(0)}

AvgKey(r) == <<r.name, r.platform, r.days, r.date>>

\* _upsert_avg_prices: the ALL row when an average came, one row per platform
\* of the list; ON CONFLICT ... DO UPDATE SET avg_price.
AvgRows(name, days, avg, data_list, date) ==
    {[name |-> name, platform |-> "ALL", days |-> days, avg_price |-> a, date |-> date]
        : a \in avg}
    \cup {[name |-> name, platform |-> p[1], days |-> days, avg_price |-> p[2],
           date |-> date] : p \in data_list}

UpsertAvgs(store, rows) ==
    {o \in store : \A n \in rows : AvgKey(n) # AvgKey(o)} \cup rows

\* avgs.get(d) or ... : the first of the periods, in order, that has an average.
FirstAvg(avgs, order) ==
    LET has == SelectSeq(order, LAMBDA d : \E p \in avgs : p[1] = d)
    IN  IF has = <<>> THEN None
        ELSE Some((CHOOSE p \in avgs : p[1] = Head(has))[2])

\* random.uniform(-0.015, 0.015), in ten-thousandths.  The draws of one item
\* follow a pattern: here the one that alternates between the ends of the range.
NoisePatterns == {"mixed"}

Noise(pat, days_ago) ==
    IF pat = "low" \/ days_ago % 2 = 0 THEN 0 - 150 ELSE 150

\* The 45 synthetic bars of one name: the far average up to day -16, between
\* far and mid from day -15 to -5, the near average from day -4 on.  A name
\* without any average is passed over.
BackfillBars(name, avgs, today, pat) ==
    LET far == Val(FirstAvg(avgs, <<90, 30, 7>>))
        mid == Val(FirstAvg(avgs, <<30, 7, 90>>))
        near == Val(FirstAvg(avgs, <<7, 30, 90>>))
        Base11(days_ago) ==
            IF days_ago > 15 THEN far * 11
            ELSE IF days_ago > 4
                 THEN far * (days_ago - 4) + mid * (15 - days_ago)
                 ELSE near * 11
        Price(days_ago) ==
            RoundDiv(Base11(days_ago) * (10000 + Noise(pat, days_ago)), 110000)
    IN  IF avgs = {} THEN {}
        ELSE {[name |-> name, platform |-> "ALL", date |-> today - days_ago,
               open |-> Price(days_ago), close |-> Price(days_ago),
               high |-> RoundDiv(Price(days_ago) * 101, 100),
               low |-> RoundDiv(Price(days_ago) * 99, 100),
               sell_count |-> None, bidding_count |-> None] : days_ago \in 1..45}

\* POST /backfill: rejected while the status is "running"; else the task is
\* created, to start when the event loop comes to it.
TriggerBackfill ==
    /\ IF backfill_state.status = "running"
       THEN /\ obs' = [obs EXCEPT !["req1"].outcome = "rejected"]
            /\ UNCHANGED pc
       ELSE \E b \in BackfillThreads :
               /\ pc[b] = "idle"
               /\ obs["req1"].started < MaxBackfills
               /\ pc' = [pc EXCEPT ![b] = "b_created"]
               /\ obs' = [obs EXCEPT !["req1"].outcome = "started",
                                     !["req1"].started = @ + 1,
                                     ![b] = [NoObs EXCEPT !.outcome = "created"]]
    /\ UNCHANGED <<now, config, tables, collector_state, backfill_state, loc>>

\* The task starts: the key is missing and it reports that, or it runs.
BackfillStartKeepsStatus(b) ==
    /\ pc[b] = "b_created"
    /\ ~api_key
    /\ pc' = [pc EXCEPT ![b] = "idle"]
    /\ obs' = [obs EXCEPT ![b].outcome = "declined"]
    /\ UNCHANGED <<now, config, tables, collector_state, backfill_state, loc>>

BackfillStart(b) ==
    /\ pc[b] = "b_created"
    /\ IF ~api_key
       THEN /\ backfill_state' = [backfill_state EXCEPT
                   !.status = "error", !.progress = <<"No SteamDT API key">>]
            /\ pc' = [pc EXCEPT ![b] = "idle"]
            /\ obs' = [obs EXCEPT ![b].outcome = "declined"]
            /\ UNCHANGED loc
       ELSE /\ backfill_state' = [backfill_state EXCEPT
                   !.status = "running", !.done = 0]
            /\ pc' = [pc EXCEPT ![b] = "b_query"]
            /\ loc' = [loc EXCEPT ![b] = NoLocals]
            /\ obs' = [obs EXCEPT ![b].outcome = "running"]
    /\ UNCHANGED <<now, config, tables, collector_state>>

\* The query of the active names; total and today follow it.
BackfillQuery(b) ==
    /\ pc[b] = "b_query"
    /\ backfill_state' = [backfill_state EXCEPT !.total = Len(ActiveNames) * 3]
    /\ loc' = [loc EXCEPT ![b].hash_names = ActiveNames,
                          ![b].today = Date(now),
                          ![b].todo = FetchList(ActiveNames)]
    /\ pc' = [pc EXCEPT ![b] = IF ActiveNames = <<>> THEN "b_gen" ELSE "b_fetch"]
    /\ UNCHANGED <<now, config, tables, collector_state, obs>>

\* An exception outside the fetches: the outer handler reports it.
BackfillQueryFails(b) ==
    /\ pc[b] = "b_query"
    /\ backfill_state' = [backfill_state EXCEPT
           !.status = "error", !.progress = <<"exception">>]
    /\ pc' = [pc EXCEPT ![b] = "idle"]
    /\ loc' = [loc EXCEPT ![b] = NoLocals]
    /\ obs' = [obs EXCEPT ![b].outcome = "failed"]
    /\ UNCHANGED <<now, config, tables, collector_state>>

\* What follows every fetch, good or bad: the counters and the sleep.
AfterFetch(b, l) ==
    /\ backfill_state' = [backfill_state EXCEPT
           !.done = @ + 1,
           !.progress = <<"item", Head(l.todo)[1], Head(l.todo)[2]>>]
    /\ loc' = [loc EXCEPT ![b] = [l EXCEPT !.todo = Tail(@)]]
    /\ pc' = [pc EXCEPT ![b] = "b_sleep"]

\* fetch_avg_price answers with a positive average: the rows are upserted and
\* the average is kept.
BackfillFetchOk(b) ==
    /\ pc[b] = "b_fetch"
    /\ LET name == Head(loc[b].todo)[1]
           days == Head(loc[b].todo)[2]
           avg == UpstreamAvg(days)
       IN  /\ item_avg_price' = UpsertAvgs(item_avg_price,
                   AvgRows(name, days, Some(avg), {<<"P1", avg>>}, Date(now)))
           /\ AfterFetch(b, [loc[b] EXCEPT
                   !.avg_data = {p \in @ : ~(p[1] = name /\ p[2] = days)}
                                    \cup {<<name, days, avg>>}])
    /\ obs' = [obs EXCEPT ![b].called = TRUE, ![b].wrote = TRUE]
    /\ UNCHANGED <<now, config, price_snapshot, price_history, quant_signal,
                   quant_alert, collector_state>>

\* The bad fetches the running backfills have met.
RECURSIVE BadFetches(_)
BadFetches(S) ==
    IF S = {} THEN 0
    ELSE LET b == CHOOSE x \in S : TRUE
         IN  loc[b].bad + BadFetches(S \ {b})

\* The fetch raises, or answers without a positive average: nothing is kept.
BackfillFetchBad(b) ==
    /\ pc[b] = "b_fetch"
    /\ BadFetches(BackfillThreads) < MaxBadFetches
    /\ LET name == Head(loc[b].todo)[1]
           days == Head(loc[b].todo)[2]
           l == [loc[b] EXCEPT !.bad = @ + 1]
       IN  \/ /\ UNCHANGED item_avg_price
              /\ AfterFetch(b, l)
              /\ obs' = [obs EXCEPT ![b].called = TRUE]
           \/ \E avg \in EmptyAnswers :
                 /\ item_avg_price' = UpsertAvgs(item_avg_price,
                         AvgRows(name, days, avg, {}, Date(now)))
                 /\ AfterFetch(b, l)
                 /\ obs' = [obs EXCEPT ![b].called = TRUE,
                                       ![b].wrote = @ \/ avg # None]
    /\ UNCHANGED <<now, config, price_snapshot, price_history, quant_signal,
                   quant_alert, collector_state>>

\* The sleep ends: the next fetch, or after the last the generation begins
\* over the names of avg_data that have an average.
BackfillWake(b) ==
    /\ pc[b] = "b_sleep"
    /\ IF loc[b].todo # <<>>
       THEN /\ pc' = [pc EXCEPT ![b] = "b_fetch"]
            /\ UNCHANGED <<loc, backfill_state>>
       ELSE /\ pc' = [pc EXCEPT ![b] = "b_gen"]
            /\ loc' = [loc EXCEPT ![b].todo =
                   SelectSeq(loc[b].hash_names,
                             LAMBDA n : \E p \in loc[b].avg_data : p[1] = n),
                                  ![b].generated = 0]
            /\ backfill_state' = [backfill_state EXCEPT
                   !.progress = <<"Generating daily points...">>]
    /\ UNCHANGED <<now, config, tables, collector_state, obs>>

\* The 45 upserts of one name and their commit.
BackfillGenerate(b) ==
    /\ pc[b] = "b_gen"
    /\ loc[b].todo # <<>>
    /\ \E pat \in NoisePatterns :
          LET name == Head(loc[b].todo)
              avgs == {<<p[2], p[3]>> : p \in {q \in loc[b].avg_data : q[1] = name}}
          IN  price_history' = UpsertBars(price_history,
                  BackfillBars(name, avgs, loc[b].today, pat), BackfillSet)
    /\ loc' = [loc EXCEPT ![b].todo = Tail(@),
                          ![b].generated =
                              IF \E q \in loc[b].avg_data : q[1] = Head(loc[b].todo)
                              THEN @ + 45 ELSE @]
    /\ obs' = [obs EXCEPT ![b].wrote = TRUE]
    /\ UNCHANGED <<now, config, price_snapshot, quant_signal, quant_alert,
                   item_avg_price, collector_state, backfill_state, pc>>

\* After the last name: the signals are computed again, for today.
BackfillCompute(b) ==
    /\ pc[b] = "b_gen"
    /\ loc[b].todo = <<>>
    /\ backfill_state' = [backfill_state EXCEPT
           !.progress = <<"Computing signals...">>]
    /\ loc' = [loc EXCEPT ![b].ret = "b_done",
                          ![b].target_date = Some(Date(now))]
    /\ pc' = [pc EXCEPT ![b] = "s_names"]
    /\ UNCHANGED <<now, config, tables, collector_state, obs>>

-----------------------------------------------------------------------------
(* The state after construction *)

InitCommon ==
    /\ now = 0
    /\ price_snapshot = {}
    /\ price_history = {}
    /\ quant_signal = {}
    /\ quant_alert = <<>>
    /\ item_avg_price = {}
    /\ collector_state = InitCollectorState
    /\ backfill_state = InitBackfillState
    /\ pc = [t \in Threads |-> "idle"]
    /\ loc = [t \in Threads |-> NoLocals]
    /\ obs = [t \in Threads |-> NoObs]

-----------------------------------------------------------------------------
(* The price collection job alone *)

InitCollect ==
    /\ InitCommon
    /\ api_key = TRUE
    /\ call = NoCall
    /\ inventory \in {PlainInventory(n) : n \in CollectSizes}
                      \cup {RepeatInventory(102, 100)}

NextCollect ==
    \/ CollectStart("price_collect")
    \/ CollectQuery("price_collect")
    \/ CollectQueryFails("price_collect")
    \/ CollectCall("price_collect")
    \/ CollectRespOk("price_collect")
    \/ CollectRespFails("price_collect")
    \/ CollectWake("price_collect")
    \/ LoopTick

SpecCollect == InitCollect /\ [][NextCollect]_vars

-----------------------------------------------------------------------------
(* Collection cycles one after another over a changing inventory *)

\* Between two cycles items are added to the inventory or leave it.
InventoryChanges ==
    /\ pc["price_collect"] = "idle"
    /\ inventory' \in {PlainInventory(n) : n \in CollectSizes} \ {inventory}
    /\ UNCHANGED <<now, api_key, call, tables, collector_state, backfill_state,
                   pc, loc, obs>>

NextCollectPoll == NextCollect \/ InventoryChanges

SpecCollectPoll == InitCollect /\ [][NextCollectPoll]_vars

-----------------------------------------------------------------------------
(* The price collection job, with every await returning or failing *)

\* The time of a sleep passes.
SleepPasses(t) ==
    /\ pc[t] = "c_sleep"
    /\ now < loc[t].wake
    /\ now' = loc[t].wake
    /\ UNCHANGED <<config, tables, collector_state, backfill_state, pc, loc, obs>>

\* The scheduler starts cycles until the clock of the model stops.
CollectStartInTime(t) == now <= MaxNow /\ CollectStart(t)

\* A step of a running cycle: what it awaits returns or fails.
CollectProgress(t) ==
    \/ CollectQuery(t)
    \/ CollectQueryFails(t)
    \/ CollectCall(t)
    \/ CollectRespOk(t)
    \/ CollectRespFails(t)
    \/ CollectWake(t)
    \/ SleepPasses(t)

\* The clock moves with the sleeps only: a call takes no time here.
NextCollectLive ==
    \/ CollectStartInTime("price_collect")
    \/ CollectProgress("price_collect")

SpecCollectLive ==
    InitCollect /\ [][NextCollectLive]_vars
        /\ WF_vars(CollectProgress("price_collect"))

-----------------------------------------------------------------------------
(* The daily pipeline: the two cron jobs and two compute-now requests *)

DayMinute(d, m) == d * (DaySecs \div MinuteSecs) + m

Tick(n, p, m, price, cnt) ==
    [name |-> n, platform |-> p, minute |-> m, sell_price |-> price,
     sell_count |-> cnt, bidding_count |-> cnt]

\* Ticks of name 1 on two platforms, yesterday and today at midnight.
BaseTicks ==
    { Tick(1, "P1", DayMinute(StartDay - 1, 600), Some(2000), Some(4)),
      Tick(1, "P1", DayMinute(StartDay - 1, 660), Some(2200), Some(5)),
      Tick(1, "P2", DayMinute(StartDay - 1, 600), Some(2100), Some(3)),
      Tick(1, "P1", DayMinute(StartDay, 0), Some(2500), Some(5)),
      Tick(1, "P2", DayMinute(StartDay, 0), Some(3000), Some(7)) }

\* The same with a later tick of yesterday that carries counts but no price.
PipeTickStores ==
    { BaseTicks,
      BaseTicks \cup {Tick(1, "P1", DayMinute(StartDay - 1, 720), None, Some(9))} }

\* An ALL bar as the backfill leaves it: one price, no counts.
FlatBar(n, d, price) ==
    [name |-> n, platform |-> "ALL", date |-> d, open |-> price, close |-> price,
     high |-> price, low |-> price, sell_count |-> None, bidding_count |-> None]

\* Two days of history of name 1, three of name 2.
HistoryBars ==
    { FlatBar(1, StartDay - 3, 2000), FlatBar(1, StartDay - 2, 2000),
      FlatBar(2, StartDay - 3, 1000), FlatBar(2, StartDay - 2, 1000),
      FlatBar(2, StartDay - 1, 900) }

\* An item bought 365 days before StartDay.
CostedRow(i, n, cost) ==
    [id |-> i, name |-> n, eff_price |-> Some(cost), target_pnl_pct |-> None,
     purchase_date |-> Some(StartDay - 365), first_seen_at |-> 0]

PlainRow(i, n) ==
    [id |-> i, name |-> n, eff_price |-> None, target_pnl_pct |-> None,
     purchase_date |-> None, first_seen_at |-> 0]

PipeInventories ==
    { <<CostedRow(1, 1, 1000)>>,
      <<CostedRow(1, 1, 2000), CostedRow(2, 1, 2000), PlainRow(3, 2)>> }

\* Earlier alerts of name 1: a near_ath older than a day, a spread_arb of an
\* hour ago.
OldAlerts ==
    << [name |-> 1, alert_type |-> "near_ath", severity |-> "warning",
        current_value |-> 10000, threshold |-> 9000,
        created_at |-> (StartDay - 2) * DaySecs],
       [name |-> 1, alert_type |-> "spread_arb", severity |-> "info",
        current_value |-> 2000, threshold |-> 1500,
        created_at |-> StartDay * DaySecs - 3600] >>

InitPipeline ==
    /\ now = StartDay * DaySecs
    /\ api_key = TRUE
    /\ call = NoCall
    /\ inventory \in PipeInventories
    /\ price_snapshot \in PipeTickStores
    /\ price_history = HistoryBars
    /\ quant_signal = {}
    /\ quant_alert = OldAlerts
    /\ item_avg_price = {}
    /\ collector_state = InitCollectorState
    /\ backfill_state = InitBackfillState
    /\ pc = [t \in Threads |-> "idle"]
    /\ loc = [t \in Threads |-> NoLocals]
    /\ obs = [t \in Threads |-> NoObs]

PipeThreads == {"daily_aggregate", "daily_signals", "req1"}

\* A step of a pipeline coroutine of thread t.
PipelineStep(t) ==
    \/ AggQuery(t)
    \/ AggUpsert(t)
    \/ AggAllQuery(t)
    \/ AggAllUpsert(t)
    \/ SigNames(t)
    \/ SigRead(t)
    \/ SigWrite(t)
    \/ AlertRead(t)
    \/ QuickRead(t)
    \/ AlertCheck(t)
    \/ AlertCommit(t)

NextPipeline ==
    \/ SchedAggregate
    \/ SchedSignals
    \/ ComputeNow("req1")
    \/ \E t \in PipeThreads : PipelineStep(t)
    \/ PipeTick

SpecPipeline == InitPipeline /\ [][NextPipeline]_vars

-----------------------------------------------------------------------------
(* One compute-now at a time, with a crash and a restart *)

NextRestart ==
    \/ ComputeNow("req1")
    \/ PipelineStep("req1")
    \/ Crash
    \/ ClockTick

SpecRestart == InitPipeline /\ [][NextRestart]_vars

-----------------------------------------------------------------------------
(* Compute-now on the first day: ticks, costs, no bar history *)

\* Name 1 at a latest price of 25.00: bought at 10.00 (+150 %), at 15.00
\* (+66 %), at 24.00 (+4 %), and two units bought at 10.00.
QuickInventories ==
    { <<CostedRow(1, 1, 1000)>>, <<CostedRow(1, 1, 1500)>>,
      <<CostedRow(1, 1, 2400)>>,
      <<CostedRow(1, 1, 1000), CostedRow(2, 1, 1000)>> }

InitQuick ==
    /\ now = StartDay * DaySecs
    /\ api_key = TRUE
    /\ call = NoCall
    /\ inventory \in QuickInventories
    /\ price_snapshot = BaseTicks
    /\ price_history = {}
    /\ quant_signal = {}
    /\ quant_alert = <<>>
    /\ item_avg_price = {}
    /\ collector_state = InitCollectorState
    /\ backfill_state = InitBackfillState
    /\ pc = [t \in Threads |-> "idle"]
    /\ loc = [t \in Threads |-> NoLocals]
    /\ obs = [t \in Threads |-> NoObs]

SpecQuick == InitQuick /\ [][NextRestart]_vars

-----------------------------------------------------------------------------
(* Compute-now when the signal computation of some items raises *)

\* Three closes of each of the names 1, 2 and 3.
SignalErrorBars ==
    HistoryBars \cup { FlatBar(1, StartDay - 1, 2100),
                       FlatBar(3, StartDay - 3, 500), FlatBar(3, StartDay - 2, 550),
                       FlatBar(3, StartDay - 1, 600) }

InitSignalErrors ==
    /\ now = StartDay * DaySecs
    /\ api_key = TRUE
    /\ call = NoCall
    /\ inventory \in PipeInventories
    /\ price_snapshot = BaseTicks
    /\ price_history = SignalErrorBars
    /\ quant_signal = {}
    /\ quant_alert = <<>>
    /\ item_avg_price = {}
    /\ collector_state = InitCollectorState
    /\ backfill_state = InitBackfillState
    /\ pc = [t \in Threads |-> "idle"]
    /\ loc = [t \in Threads |-> NoLocals]
    /\ obs = [t \in Threads |-> NoObs]

NextSignalErrors ==
    \/ ComputeNow("req1")
    \/ PipelineStep("req1")
    \/ SigReadFails("req1")

SpecSignalErrors == InitSignalErrors /\ [][NextSignalErrors]_vars

-----------------------------------------------------------------------------
(* The backfill and its requests *)

InitBackfill ==
    /\ now = StartDay * DaySecs
    /\ api_key = TRUE
    /\ call = NoCall
    /\ inventory \in {<<PlainRow(1, 1)>>, <<>>}
    /\ price_snapshot = BaseTicks
    /\ price_history = HistoryBars
    /\ quant_signal = {}
    /\ quant_alert = OldAlerts
    /\ item_avg_price = {}
    /\ collector_state = InitCollectorState
    /\ backfill_state = InitBackfillState
    /\ pc = [t \in Threads |-> "idle"]
    /\ loc = [t \in Threads |-> NoLocals]
    /\ obs = [t \in Threads |-> NoObs]

\* A step of a backfill task b.
BackfillStep(b) ==
    \/ BackfillStart(b)
    \/ BackfillQuery(b)
    \/ BackfillQueryFails(b)
    \/ BackfillFetchOk(b)
    \/ BackfillFetchBad(b)
    \/ BackfillWake(b)
    \/ BackfillGenerate(b)
    \/ BackfillCompute(b)
    \/ SigNames(b)
    \/ SigRead(b)
    \/ SigWrite(b)
    \/ AlertRead(b)
    \/ AlertCheck(b)
    \/ AlertCommit(b)

NextBackfill ==
    \/ TriggerBackfill
    \/ \E b \in BackfillThreads : BackfillStep(b)

SpecBackfill == InitBackfill /\ [][NextBackfill]_vars

-----------------------------------------------------------------------------
(* One backfill beside the scheduled aggregation *)

\* The clock moves on unless the aggregation job is due.
AggregateTick ==
    /\ ~CronDue("daily_aggregate", AggregateAt)
    /\ ClockTick

\* One POST /backfill that finds no backfill started before.
FirstBackfill ==
    /\ obs["req1"].started = 0
    /\ TriggerBackfill

NextSupersede ==
    \/ FirstBackfill
    \/ \E b \in BackfillThreads : BackfillStep(b)
    \/ SchedAggregate
    \/ AggQuery("daily_aggregate")
    \/ AggUpsert("daily_aggregate")
    \/ AggAllQuery("daily_aggregate")
    \/ AggAllUpsert("daily_aggregate")
    \/ AggregateTick

SpecSupersede == InitBackfill /\ [][NextSupersede]_vars

-----------------------------------------------------------------------------
(* The cleanup job beside the daily aggregation, over the retention window *)

keep_days == 7         \* cleanup_old_snapshots(keep_days=7)
CleanupAt == 3600      \* cron hour=1, minute=0

\* The day whose cleanup reaches the ticks of StartDay.
LastCleanupDay == StartDay + keep_days + 1

\* cleanup_old_snapshots as the scheduler runs it: one DELETE of the ticks
\* whose minute sorts before midnight of the cutoff date, then the commit.
\* Nothing but the age of a tick is tested.
cleanup_old_snapshots ==
    LET t == "cleanup_snapshots"
        cutoff == Date(now - keep_days * DaySecs)
    IN  /\ CronDue(t, CleanupAt)
        /\ price_snapshot' = {r \in price_snapshot : ~(r.minute < DayMinute(cutoff, 0))}
        /\ obs' = [obs EXCEPT ![t] = [@ EXCEPT
                      !.last_fire = Some(Date(now)), !.outcome = "done",
                      !.wrote = TRUE]]
        /\ UNCHANGED <<now, config, price_history, quant_signal, quant_alert,
                       item_avg_price, collector_state, backfill_state, pc, loc>>

\* The scheduler is not running at the time of a job (the process is down for
\* longer than misfire_grace_time): the run of that day does not happen, and
\* the scheduler started afterwards computes the next time from then on.
MissedRun(t, at) ==
    /\ CronDue(t, at)
    /\ obs' = [obs EXCEPT ![t].last_fire = Some(Date(now))]
    /\ UNCHANGED <<now, config, tables, collector_state, backfill_state, pc, loc>>

\* The next cron time of the two jobs after a time.
NextCronTime(t) ==
    LET s == t % DaySecs
    IN  IF s < AggregateAt THEN t - s + AggregateAt
        ELSE IF s < CleanupAt THEN t - s + CleanupAt
        ELSE t - s + DaySecs + AggregateAt

\* Time passes to the next cron time, once the jobs due now are over.
CleanupClock ==
    /\ pc["daily_aggregate"] = "idle"
    /\ ~CronDue("daily_aggregate", AggregateAt)
    /\ ~CronDue("cleanup_snapshots", CleanupAt)
    /\ now < LastCleanupDay * DaySecs + CleanupAt
    /\ now' = NextCronTime(now)
    /\ UNCHANGED <<config, tables, collector_state, backfill_state, pc, loc, obs>>

InitCleanup ==
    /\ now = StartDay * DaySecs
    /\ api_key = TRUE
    /\ call = NoCall
    /\ inventory = <<PlainRow(1, 1)>>
    /\ price_snapshot = BaseTicks
    /\ price_history = HistoryBars
    /\ quant_signal = {}
    /\ quant_alert = <<>>
    /\ item_avg_price = {}
    /\ collector_state = InitCollectorState
    /\ backfill_state = InitBackfillState
    /\ pc = [t \in Threads |-> "idle"]
    /\ loc = [t \in Threads |-> NoLocals]
    /\ obs = [t \in Threads |-> NoObs]

NextCleanup ==
    \/ SchedAggregate
    \/ AggQuery("daily_aggregate")
    \/ AggUpsert("daily_aggregate")
    \/ AggAllQuery("daily_aggregate")
    \/ AggAllUpsert("daily_aggregate")
    \/ cleanup_old_snapshots
    \/ MissedRun("daily_aggregate", AggregateAt)
    \/ MissedRun("cleanup_snapshots", CleanupAt)
    \/ CleanupClock

SpecCleanup == InitCleanup /\ [][NextCleanup]_vars

-----------------------------------------------------------------------------
(* Every writer of the three keyed stores, on keys that exist *)

\* The ticks with one more of name 1, collected in the minute of StoresStart.
StoresStart == StartDay * DaySecs + AggregateAt
StoresTicks ==
    BaseTicks \cup {Tick(1, "P1", Minute(StoresStart), Some(2600), Some(6))}

\* What a backfill before midnight left, when the upstream reported other
\* averages: its bars, and the Signal rows computed from them for StartDay.
OldAverages == {<<7, 2100>>, <<30, 2000>>, <<90, 1900>>}
OldBars ==
    UpsertBars(HistoryBars, BackfillBars(1, OldAverages, StartDay, "mixed"), BackfillSet)
OldSignals ==
    SignalRows(OldBars, StoresTicks, <<PlainRow(1, 1)>>, {b.name : b \in OldBars},
               StartDay, StoresStart)

\* 00:05 of StartDay: the aggregation job is due.
InitStores ==
    /\ now = StoresStart
    /\ api_key = TRUE
    /\ call = NoCall
    /\ inventory = <<PlainRow(1, 1)>>
    /\ price_snapshot = StoresTicks
    /\ price_history = OldBars
    /\ quant_signal = OldSignals
    /\ quant_alert = OldAlerts
    /\ item_avg_price = {}
    /\ collector_state = InitCollectorState
    /\ backfill_state = InitBackfillState
    /\ pc = [t \in Threads |-> "idle"]
    /\ loc = [t \in Threads |-> NoLocals]
    /\ obs = [t \in Threads |-> NoObs]

\* One chunk: the cycle has no cool-down.
NextStores ==
    \/ FirstBackfill
    \/ \E b \in BackfillThreads : BackfillStep(b)
    \/ SchedAggregate
    \/ AggQuery("daily_aggregate")
    \/ AggUpsert("daily_aggregate")
    \/ AggAllQuery("daily_aggregate")
    \/ AggAllUpsert("daily_aggregate")
    \/ CollectStart("price_collect")
    \/ CollectQuery("price_collect")
    \/ CollectCall("price_collect")
    \/ CollectRespOk("price_collect")
    \/ CollectRespFails("price_collect")

SpecStores == InitStores /\ [][NextStores]_vars

-----------------------------------------------------------------------------
(* aggregate_daily on its own, over a family of tick stores *)

\* What one capture of a platform may hold: nothing, a tick without a price,
\* or a tick with one of these prices.
SlotPrices == {900, 1000, 1100, 1200}
SlotValues == {None, Some(None)} \cup {Some(Some(p)) : p \in SlotPrices}

\* The four captures of name 1 on P1 yesterday, one hour apart, and one on P2.
SlotTicks(q) ==
    {Tick(1, "P1", DayMinute(StartDay - 1, 60 * i), Val(q[i]), Some(i)) :
        i \in {j \in 1..4 : IsSome(q[j])}}
        \cup (IF IsSome(q[5])
              THEN {Tick(1, "P2", DayMinute(StartDay - 1, 90), Val(q[5]), Some(7))}
              ELSE {})

\* Ticks that are not yesterday's: of the day before and of today.
OtherDayTicks ==
    { Tick(1, "P1", DayMinute(StartDay - 2, 600), Some(5000), Some(2)),
      Tick(1, "P1", DayMinute(StartDay, 0), Some(100), Some(2)) }

AggTickStores ==
    {SlotTicks(q) \cup OtherDayTicks :
        q \in [1..5 -> SlotValues] }

\* Bars earlier runs may have left: none, or the bars of a third platform for
\* yesterday and the day before, beside an ALL bar of yesterday that the
\* backfill has since overwritten.
StaleBars ==
    { [name |-> 1, platform |-> "P3", date |-> StartDay - 1, open |-> 950,
       close |-> 1150, high |-> 1300, low |-> 800, sell_count |-> Some(11),
       bidding_count |-> None],
      [name |-> 1, platform |-> "P3", date |-> StartDay - 2, open |-> 700,
       close |-> 700, high |-> 1500, low |-> 600, sell_count |-> Some(13),
       bidding_count |-> Some(1)],
      FlatBar(1, StartDay - 1, 2000) }

AggBarStores == {HistoryBars, HistoryBars \cup StaleBars}

\* 00:05 of StartDay: the aggregation job is due.
InitAggregate ==
    /\ now = StartDay * DaySecs + AggregateAt
    /\ api_key = TRUE
    /\ call = NoCall
    /\ inventory = <<PlainRow(1, 1)>>
    /\ price_snapshot \in AggTickStores
    /\ price_history \in AggBarStores
    /\ quant_signal = {}
    /\ quant_alert = <<>>
    /\ item_avg_price = {}
    /\ collector_state = InitCollectorState
    /\ backfill_state = InitBackfillState
    /\ pc = [t \in Threads |-> "idle"]
    /\ loc = [t \in Threads |-> NoLocals]
    /\ obs = [t \in Threads |-> NoObs]

NextAggregate ==
    \/ SchedAggregate
    \/ AggQuery("daily_aggregate")
    \/ AggUpsert("daily_aggregate")
    \/ AggAllQuery("daily_aggregate")
    \/ AggAllUpsert("daily_aggregate")

SpecAggregate == InitAggregate /\ [][NextAggregate]_vars

-----------------------------------------------------------------------------
(* The two composite scores as functions of their arguments *)

\* The arguments tried: each optional one absent, far below and far above the
\* thresholds of its dimension.
PnlInputs == {None, Some(0 - 10000), Some(100000)}
TargetInputs == {0, 3000}
AnnualizedInputs == {None, Some(0 - 50000), Some(100000)}
DaysHeldInputs == {0, 400}
ConcentrationInputs == {None, Some(10000)}
HoldingInputs == {1, 1000}
ZscoreInputs == {None, Some(0 - 1000), Some(1000)}
RsiInputs == {None, Some(0), Some(10000)}
BbInputs == {None, Some(0 - 500), Some(500)}
MomentumInputs == {None, Some(0 - 10000), Some(100000)}
ShareInputs == {None, Some(10000)}
SpreadInputs == {None, Some(10000)}

SellInputs ==
    PnlInputs \X TargetInputs \X AnnualizedInputs \X DaysHeldInputs
        \X ConcentrationInputs \X HoldingInputs \X ZscoreInputs \X RsiInputs
        \X BbInputs \X {None, Some(100000)} \X ShareInputs

OpportunityInputs ==
    RsiInputs \X BbInputs \X MomentumInputs \X SpreadInputs \X PnlInputs
        \X TargetInputs

\* Profit and loss around the thresholds of the profit-attainment dimension and
\* annualized returns around the benchmark, with few other arguments.
ProfitPnls ==
    {None} \cup {Some(v) : v \in {0 - 10000, 0 - 4401, 0 - 4400, 0 - 2500, 0 - 1000,
                                  0 - 999, 0 - 100, 0 - 1, 0, 1500, 2999, 3000,
                                  4499, 4500, 12000, 100000}}
ProfitAnnualized ==
    {None} \cup {Some(v) : v \in {0 - 5000, 0, 1499, 1500, 4500, 4501, 5000}}
ProfitInputs ==
    ProfitPnls \X {0, 2000, 3000} \X ProfitAnnualized \X {0, 30, 31, 400}
        \X {None} \X {1} \X {None, Some(1000)} \X {None} \X {None} \X {None}
        \X {None}

\* Losses around 5 % and 20 % and profits around the target.
TroughPnls ==
    {None} \cup {Some(v) : v \in {0 - 10000, 0 - 6001, 0 - 6000, 0 - 2100, 0 - 2001,
                                  0 - 2000, 0 - 1999, 0 - 1900, 0 - 1000, 0 - 501,
                                  0 - 500, 0 - 499, 0, 3000, 3001, 8000, 8001,
                                  100000}}
TroughInputs ==
    {None} \X {None} \X {None} \X SpreadInputs \X TroughPnls \X TargetInputs

\* Unit counts around the steps of the holding bonus, with and without a
\* concentration value.
HoldingSteps == {0, 1, 20, 21, 50, 51, 100, 150, 151, 1000}
HoldingStepInputs ==
    {None} \X {0} \X {None} \X {0} \X {None, Some(1000)} \X HoldingSteps
        \X {None} \X {None} \X {None} \X {None} \X {None}

ScoreCalls ==
    {[fn |-> "compute_sell_score", args |-> a, out |-> None] :
        a \in SellInputs \cup ProfitInputs \cup HoldingStepInputs}
        \cup {[fn |-> "compute_opportunity_score", args |-> a, out |-> None] :
                 a \in OpportunityInputs \cup TroughInputs}

InitScores ==
    /\ InitCommon
    /\ api_key = TRUE
    /\ call \in ScoreCalls
    /\ inventory = <<>>

SellScoreCall ==
    /\ call.fn = "compute_sell_score"
    /\ call.out = None
    /\ LET a == call.args
       IN  call' = [call EXCEPT !.out = Some(compute_sell_score(a[1], a[2], a[3],
                       a[4], a[5], a[6], a[7], a[8], a[9], a[10], a[11]))]
    /\ UNCHANGED <<now, api_key, inventory, tables, collector_state,
                   backfill_state, pc, loc, obs>>

OpportunityScoreCall ==
    /\ call.fn = "compute_opportunity_score"
    /\ call.out = None
    /\ LET a == call.args
       IN  call' = [call EXCEPT !.out = Some(compute_opportunity_score(a[1], a[2],
                       a[3], a[4], a[5], a[6]))]
    /\ UNCHANGED <<now, api_key, inventory, tables, collector_state,
                   backfill_state, pc, loc, obs>>

NextScores == SellScoreCall \/ OpportunityScoreCall

SpecScores == InitScores /\ [][NextScores]_vars

-----------------------------------------------------------------------------
(* The indicators of a close history, and the scores taken from them *)

MaxCloses == 32        \* the longest close history tried

\* Close histories: flat, rising and falling by half a unit a day.
ClosePatterns == {"flat", "rising", "falling"}
CloseSeries(pat, n) ==
    [i \in 1..n |-> CASE pat = "flat" -> 1000
                      [] pat = "rising" -> 1000 + 50 * i
                      [] pat = "falling" -> 3000 - 50 * i]

IndicatorCalls ==
    {[fn |-> "indicators", args |-> <<CloseSeries(pat, n), pnl>>, out |-> None] :
        pat \in ClosePatterns, n \in 0..MaxCloses, pnl \in {None, Some(0 - 3000)}}

InitIndicators ==
    /\ InitCommon
    /\ api_key = TRUE
    /\ call \in IndicatorCalls
    /\ inventory = <<>>

\* The calls of _compute_item_indicators on the closes, with their periods.
Indicators(closes) ==
    LET bb == calc_bollinger(closes, 20)
    IN  [rsi |-> calc_rsi(closes, 14),
         bb |-> bb,
         bb_pos |-> IF IsSome(bb) THEN Some(Val(bb).pct_b) ELSE None,
         momentum_7 |-> calc_momentum(closes, 7),
         momentum_30 |-> calc_momentum(closes, 30),
         volatility_30 |-> calc_volatility(closes, 30),
         ma_7 |-> _sma(closes, 7),
         ma_30 |-> _sma(closes, 30)]

IndicatorsCall ==
    /\ call.fn = "indicators"
    /\ call.out = None
    /\ call' = [call EXCEPT !.out = Some(Indicators(call.args[1]))]
    /\ UNCHANGED <<now, api_key, inventory, tables, collector_state,
                   backfill_state, pc, loc, obs>>

\* The two scores of an item without portfolio context, from indicators.
ScoresOf(ind, pnl) ==
    [sell |-> compute_sell_score(pnl, 3000, None, 0, None, 1, None, ind.rsi,
                                 ind.bb_pos, ind.momentum_30, None),
     opportunity |-> compute_opportunity_score(ind.rsi, ind.bb_pos,
                                               ind.momentum_7, None, pnl, 3000)]

ScoresCall ==
    /\ call.fn = "indicators"
    /\ IsSome(call.out)
    /\ call' = [fn |-> "scores", args |-> Append(call.args, Val(call.out)),
                out |-> Some(ScoresOf(Val(call.out), call.args[2]))]
    /\ UNCHANGED <<now, api_key, inventory, tables, collector_state,
                   backfill_state, pc, loc, obs>>

NextIndicators == IndicatorsCall \/ ScoresCall

SpecIndicators == InitIndicators /\ [][NextIndicators]_vars

-----------------------------------------------------------------------------
(* The bars of a backfill as a function of the averages *)

\* The averages of one name: each period absent or one of two prices.
PeriodPrices == {900, 2000}
AverageSets ==
    {{<<7, Val(a)>> : x \in {1 : y \in a}} \cup {<<30, Val(m)>> : x \in {1 : y \in m}}
        \cup {<<90, Val(f)>> : x \in {1 : y \in f}} :
        a \in {None} \cup {Some(p) : p \in PeriodPrices},
        m \in {None} \cup {Some(p) : p \in PeriodPrices},
        f \in {None} \cup {Some(p) : p \in PeriodPrices}}

\* The draws of the noise: all at the low end, or alternating.
InterpolatePatterns == {"low", "mixed"}

InterpolateCalls ==
    {[fn |-> "backfill_bars", args |-> <<avgs, today, pat>>, out |-> None] :
        avgs \in AverageSets, today \in {StartDay, StartDay + 1},
        pat \in InterpolatePatterns}

InitInterpolate ==
    /\ InitCommon
    /\ api_key = TRUE
    /\ call \in InterpolateCalls
    /\ inventory = <<PlainRow(1, 1)>>

\* The generation loop for the one active name, on an empty bar store.
InterpolateCall ==
    /\ call.fn = "backfill_bars"
    /\ call.out = None
    /\ call' = [call EXCEPT !.out =
                   Some(UpsertBars({}, BackfillBars(1, call.args[1], call.args[2],
                                                    call.args[3]), BackfillSet))]
    /\ UNCHANGED <<now, api_key, inventory, tables, collector_state,
                   backfill_state, pc, loc, obs>>

NextInterpolate == InterpolateCall

SpecInterpolate == InitInterpolate /\ [][NextInterpolate]_vars

-----------------------------------------------------------------------------
(* The jobs that need the key, without the key *)

InitConfig ==
    /\ InitCommon
    /\ api_key = FALSE
    /\ call = NoCall
    /\ inventory \in {PlainInventory(n) : n \in CollectSizes}

NextConfig ==
    \/ CollectStart("price_collect")
    \/ TriggerBackfill
    \/ \E b \in BackfillThreads : BackfillStart(b)
    \/ LoopTick

SpecConfig == InitConfig /\ [][NextConfig]_vars

-----------------------------------------------------------------------------
(* Properties of the price collection job *)

\* The chunks of the cycle that succeeded, by the log of the cycle.
OkBatches(l) == {i \in DOMAIN l.results : l.results[i]}

RECURSIVE ItemsUpTo(_, _)
ItemsUpTo(l, k) ==
    IF k = 0 THEN 0
    ELSE ItemsUpTo(l, k - 1) + (IF l.results[k] THEN Len(l.chunks[k]) ELSE 0)

ItemsOfOk(l) == ItemsUpTo(l, Len(l.results))

\* C4: within one collect_prices cycle the batches are fetched one after
\* another; more than 60 seconds pass between the end of a batch attempt
\* (successful or failed) and the start of the next upstream call; and no wait
\* follows the last batch: the cycle ends the moment its last attempt ends.
C4_CooldownBetweenBatches ==
    LET t == "price_collect"
        l == loc[t]
    IN  /\ pc[t] \in {"c_call", "c_resp"} => Len(l.results) = l.idx - 1
        /\ (pc[t] = "c_resp" /\ l.idx > 1) =>
               /\ IsSome(l.last_end)
               /\ Val(l.call_start) - Val(l.last_end) > 60
        /\ pc[t] = "c_sleep" => l.idx < Len(l.chunks)
        /\ (pc[t] = "idle" /\ l.results # <<>>) =>
               collector_state.last_run = l.last_end

\* A third batch is being fetched after a failed one, cool-downs included.
C4_Witness ==
    /\ pc["price_collect"] = "c_resp"
    /\ loc["price_collect"].idx = 3
    /\ FALSE \in Range(loc["price_collect"].results)

\* C9: a failed batch is skipped and not retried: in a cycle every batch is
\* attempted exactly once and in order, also those after a failed one; only
\* the successful batches count in batches_done and items_collected; and the
\* cycle ends with status idle, not error.
C9_FailedBatchSkipped ==
    LET t == "price_collect"
        l == loc[t]
        cs == collector_state
    IN  /\ pc[t] \in {"c_call", "c_resp"} => Len(l.results) = l.idx - 1
        /\ pc[t] = "c_sleep" => Len(l.results) = l.idx
        /\ pc[t] \in {"c_call", "c_resp", "c_sleep"} =>
               /\ cs.status = "running"
               /\ cs.batches_done = Cardinality(OkBatches(l))
               /\ cs.items_collected = ItemsOfOk(l)
        /\ (pc[t] = "idle" /\ l.results # <<>>) =>
               /\ Len(l.results) = Len(l.chunks)
               /\ cs.status = "idle"
               /\ cs.batches_done = Cardinality(OkBatches(l))
               /\ cs.items_collected = ItemsOfOk(l)

\* A cycle has ended in which a batch failed and a later one succeeded.
C9_Witness ==
    LET l == loc["price_collect"]
    IN  /\ pc["price_collect"] = "idle"
        /\ \E i, j \in DOMAIN l.results : i < j /\ ~l.results[i] /\ l.results[j]

-----------------------------------------------------------------------------
(* Properties of the daily pipeline *)

AggregatePcs == {"a_query", "a_upsert", "a_all_query", "a_all_upsert"}
SignalPcs == {"s_names", "s_read", "s_write", "g_read", "g_check"}
QuickPcs == {"q_read", "q_check"}
CollectPcs == {"c_query", "c_call", "c_resp", "c_sleep"}

\* C1: whatever the alert-producing runs and their interleaving, no two
\* quant_alert rows of the same item and kind are created less than 24 hours
\* apart.
C1_NoDuplicateWithin24h ==
    \A i, j \in DOMAIN quant_alert :
        (/\ i < j
         /\ quant_alert[i].name = quant_alert[j].name
         /\ quant_alert[i].alert_type = quant_alert[j].alert_type)
        => quant_alert[j].created_at - quant_alert[i].created_at >= DaySecs

\* C2: of each job kind (price collection, daily aggregation, signal
\* computation) at most one instance is active at any time, whoever started it.
C2_OneInstancePerKind ==
    \A kind \in {CollectPcs, AggregatePcs, SignalPcs} :
        Cardinality({t \in Threads : pc[t] \in kind}) <= 1

\* C5: each stage of the daily sequence has committed before the next reads:
\* while the signal job of a day runs, the aggregation job fired that day has
\* ended; a compute-now computes signals only after its own aggregation ended;
\* and alert generation starts with the Signal rows of its run written.
C5_StagesCommitted ==
    /\ (/\ pc["daily_signals"] \in SignalPcs
        /\ obs["daily_aggregate"].last_fire = Some(Date(now)))
       => pc["daily_aggregate"] \notin AggregatePcs
    /\ \A t \in {"req1"} :
          pc[t] \in SignalPcs \cup QuickPcs =>
              /\ obs[t].runs # <<>>
              /\ obs[t].runs[Len(obs[t].runs)].date = Date(now)
    /\ \A t \in Threads :
          pc[t] \in {"g_read", "g_check"} =>
              /\ loc[t].rows = {}
              /\ \A n \in loc[t].all_names : \A r \in obs[t].computed :
                    (r.name = n /\ r.date = Val(loc[t].target_date)) =>
                        \E s \in quant_signal : SignalKey(s) = SignalKey(r)

\* C6: every quant_signal row, in every state, is the whole row of one scoring
\* computation: all its fields come from the same values dict, never partly
\* from an earlier computation of the same item and date.
C6_SignalRowsWhole ==
    \A r \in quant_signal : \E t \in Threads : r \in obs[t].computed

\* A row stands that replaced the row of another computation with other scores.
C6_Witness ==
    \E r \in quant_signal : \E t \in Threads : \E old \in obs[t].computed :
        /\ SignalKey(old) = SignalKey(r)
        /\ old.sell_score # r.sell_score
        /\ old.ath_price # r.ath_price

\* C7: a second aggregate_daily for the same date with the same ticks leaves
\* the bars of that date, per-platform and ALL, as the first run left them.
C7_AggregateIdempotent ==
    \A t \in Threads :
        LET r == obs[t].runs
        IN  (Len(r) = 2 /\ r[1].date = r[2].date /\ r[1].ticks = r[2].ticks)
            => r[2].bars = r[1].bars

\* Two runs for today have ended, and they left per-platform and ALL bars.
C7_Witness ==
    LET r == obs["req1"].runs
    IN  /\ Len(r) = 2
        /\ r[1].date = r[2].date
        /\ \E b \in r[2].bars : b.platform = "ALL"
        /\ \E b \in r[2].bars : b.platform # "ALL"

\* The tables after one uninterrupted daily sequence (aggregate_daily for the
\* date, compute_all_signals with its alerts, the quick alerts) from tables pre.
RefBars(pre, date) ==
    LET rows == AggregateRows(price_snapshot, date)
        first == UpsertBars(pre.bars, rows, AggregateSet)
    IN  IF rows = {} THEN pre.bars
        ELSE UpsertBars(first, AllRows(first, date), AggregateSet)

RefSignals(pre, date) ==
    LET bars == RefBars(pre, date)
        all_names == {b.name : b \in bars}
    IN  UpsertSignals(pre.signals,
                      SignalRows(bars, price_snapshot, inventory, all_names, date, now),
                      SignalSet)

RefAlerts(pre, date) ==
    LET rules == IF RefBars(pre, date) = {} THEN pre.alerts
                 ELSE RunChecks(AlertCandidates(RefSignals(pre, date), date,
                                    PurchaseMap(inventory), price_snapshot),
                                pre.alerts, now)
    IN  IF PriceMapEmpty(price_snapshot) THEN rules
        ELSE RunChecks(QuickCandidates(inventory, price_snapshot), rules, now)

\* Alert rows but for their creation time, and equality as bags of those.
Strip(a) == [name |-> a.name, alert_type |-> a.alert_type, severity |-> a.severity,
             current_value |-> a.current_value, threshold |-> a.threshold]

SameAlerts(a, b) ==
    \A x \in {Strip(a[i]) : i \in DOMAIN a} \cup {Strip(b[i]) : i \in DOMAIN b} :
        Cardinality({i \in DOMAIN a : Strip(a[i]) = x})
            = Cardinality({i \in DOMAIN b : Strip(b[i]) = x})

\* C8: when a daily sequence has run to its end, however often the process
\* crashed and the sequence was started again on the way, the bars and the
\* signals equal those of one uninterrupted run from the first tables, and
\* the alerts are the same rows, none twice and none missing.
C8_RestartSafe ==
    LET o == obs["req1"]
    IN  (pc["req1"] = "idle" /\ o.outcome = "returned") =>
            /\ price_history = RefBars(o.pre[1], Date(now))
            /\ quant_signal = RefSignals(o.pre[1], Date(now))
            /\ SameAlerts(quant_alert, RefAlerts(o.pre[1], Date(now)))

\* A sequence ended after a crash between the two commits of aggregate_daily.
C8_Witness ==
    /\ pc["req1"] = "idle"
    /\ obs["req1"].outcome = "returned"
    /\ obs["req1"].crashed_at = "a_all_query"
    /\ Len(quant_alert) > Len(OldAlerts)

-----------------------------------------------------------------------------
(* Properties of the backfill and of the missing key *)

\* The backfill tasks that have begun to run and have not ended.
BackfillRunning == {b \in BackfillThreads : pc[b] \notin {"idle", "b_created"}}

\* C3: a backfill request that finds the status "running" is rejected, and so
\* at most one backfill_avg_prices run is active at any time, whatever the
\* order of the requests.
C3_OneBackfillActive == Cardinality(BackfillRunning) <= 1

\* The tables as the jobs found them.
NothingWritten ==
    /\ tables = <<{}, {}, {}, <<>>, {}>>
    /\ \A t \in Threads : ~obs[t].called /\ ~obs[t].wrote /\ ~obs[t].raised

\* C10 as stated: without the key collect_prices and backfill_avg_prices make
\* no upstream call, write nothing, raise nothing, and the polled status of
\* each reports idle afterwards.
C10_ReportsIdle ==
    ~api_key =>
        /\ NothingWritten
        /\ collector_state.status = "idle"
        /\ backfill_state.status = "idle"

\* backfill_state as a backfill without the key leaves it.
NoKeyState ==
    [InitBackfillState EXCEPT !.status = "error", !.progress = <<"No SteamDT API key">>]

\* C10, amended: without the key both jobs make no upstream call, write
\* nothing and raise nothing; the collector status stays idle, and the backfill
\* status is "error" with the progress "No SteamDT API key" once a backfill
\* has declined.
C10_DeclinesWithoutKey ==
    ~api_key =>
        /\ NothingWritten
        /\ collector_state = InitCollectorState
        /\ \A t \in Threads : pc[t] \in {"idle", "b_created"}
        /\ backfill_state \in {InitBackfillState, NoKeyState}
        /\ (\E b \in BackfillThreads : obs[b].outcome = "declined")
               => backfill_state = NoKeyState

\* Both jobs were invoked without the key and declined.
C10_Witness ==
    /\ ~api_key
    /\ obs["price_collect"].outcome = "declined"
    /\ \E b \in BackfillThreads : obs[b].outcome = "declined"
    /\ inventory # <<>>

-----------------------------------------------------------------------------
(* Properties of the bar store under backfill and aggregation *)

\* C11: whatever the order of aggregate_daily and backfill_avg_prices runs,
\* the ALL bar of an (item, date) whose ticks were aggregated holds the open,
\* high, low and close aggregated from the platform bars of that date, never
\* the synthetic values of the backfill.
C11_RealBarsSupersede ==
    LET o == obs["daily_aggregate"]
    IN  (pc["daily_aggregate"] = "idle" /\ o.runs # <<>>) =>
            \A r \in AllRows(price_history, o.runs[Len(o.runs)].date) :
                \E b \in price_history :
                    /\ BarKey(b) = BarKey(r)
                    /\ b.open = r.open /\ b.close = r.close
                    /\ b.high = r.high /\ b.low = r.low

\* C12: under any schedule of the two jobs, days without an aggregation run
\* included, a tick that cleanup_old_snapshots has deleted belongs to a date
\* that has been aggregated (its platform bar exists), and a tick inside the
\* retention window is still stored.
C12_CleanupKeepsUnaggregated ==
    /\ \A r \in BaseTicks \ price_snapshot :
           \E b \in price_history :
               /\ b.name = r.name /\ b.platform = r.platform
               /\ b.date = DateOfMinute(r.minute)
    /\ \A r \in BaseTicks :
           DateOfMinute(r.minute) >= Date(now - keep_days * DaySecs)
               => r \in price_snapshot

-----------------------------------------------------------------------------
(* Properties of the keyed stores *)

UniqueKeys ==
    /\ Cardinality({TickKey(r) : r \in price_snapshot}) = Cardinality(price_snapshot)
    /\ Cardinality({BarKey(r) : r \in price_history}) = Cardinality(price_history)
    /\ Cardinality({SignalKey(r) : r \in quant_signal}) = Cardinality(quant_signal)

\* The bars the generation step of a backfill task writes for its next name.
PendingBars(b, pat) ==
    LET name == Head(loc[b].todo)
        avgs == {<<p[2], p[3]>> : p \in {q \in loc[b].avg_data : q[1] = name}}
    IN  BackfillBars(name, avgs, loc[b].today, pat)

\* The steps that write: of the collection, the aggregation, the signals, the
\* generation of a backfill.
TickWriteStep == price_snapshot' # price_snapshot
BarWriteStep(t) ==
    pc[t] \in {"a_upsert", "a_all_upsert"} /\ pc'[t] # pc[t]
SignalWriteStep(t) == pc[t] = "s_write" /\ pc'[t] # pc[t]
GenerateStep(b) ==
    pc[b] = "b_gen" /\ loc[b].todo # <<>> /\ loc'[b].todo # loc[b].todo

\* After a write of ticks, aggregated bars or Signal rows the store holds the
\* written rows as they were written.
WholeRowWrites ==
    /\ TickWriteStep =>
           \E resp \in BatchResponses(loc["price_collect"].chunks[loc["price_collect"].idx]) :
               SnapshotRows(resp, Minute(now)) \subseteq price_snapshot'
    /\ \A t \in Threads :
           /\ BarWriteStep(t) => loc[t].rows \subseteq price_history'
           /\ SignalWriteStep(t) => loc[t].rows \subseteq quant_signal'

-----------------------------------------------------------------------------
(* Properties of aggregate_daily *)

\* The date the scheduled run takes, and its ticks with a price.
AggTarget == Date(now - DaySecs)
ValidTicks ==
    {r \in price_snapshot : DateOfMinute(r.minute) = AggTarget /\ IsSome(r.sell_price)}
GroupOf(r) == {q \in ValidTicks : q.name = r.name /\ q.platform = r.platform}

\* The platform bars of the run are committed.
PlatformBarsWritten ==
    \/ pc["daily_aggregate"] \in {"a_all_query", "a_all_upsert"}
    \/ pc["daily_aggregate"] = "idle" /\ obs["daily_aggregate"].outcome = "returned"

AggregateFinished ==
    pc["daily_aggregate"] = "idle" /\ obs["daily_aggregate"].outcome = "returned"

\* C14: for every (item, platform) with a priced tick on the target date the
\* bar written by aggregate_daily has the price of the earliest priced tick as
\* open, of the latest as close, the largest tick price as high and the
\* smallest as low, so low <= open <= high and low <= close <= high.
C14_OhlcFromTicks ==
    PlatformBarsWritten =>
        \A r \in ValidTicks :
            \E b \in price_history :
                /\ BarKey(b) = <<r.name, r.platform, AggTarget>>
                /\ (\A q \in GroupOf(r) : r.minute <= q.minute) => b.open = Val(r.sell_price)
                /\ (\A q \in GroupOf(r) : r.minute >= q.minute) => b.close = Val(r.sell_price)
                /\ b.low <= Val(r.sell_price) /\ Val(r.sell_price) <= b.high
                /\ \E q \in GroupOf(r) : Val(q.sell_price) = b.high
                /\ \E q \in GroupOf(r) : Val(q.sell_price) = b.low
                /\ b.low <= b.open /\ b.open <= b.high
                /\ b.low <= b.close /\ b.close <= b.high

\* The example: ticks 10, 12, 9, 11 in time order give open 10, close 11,
\* high 12, low 9.
C14_Witness ==
    /\ AggregateFinished
    /\ {<<r.minute, r.sell_price>> : r \in {q \in ValidTicks : q.platform = "P1"}}
           = { <<DayMinute(StartDay - 1, 60), Some(1000)>>,
               <<DayMinute(StartDay - 1, 120), Some(1200)>>,
               <<DayMinute(StartDay - 1, 180), Some(900)>>,
               <<DayMinute(StartDay - 1, 240), Some(1100)>> }
    /\ \E b \in price_history :
           /\ BarKey(b) = <<1, "P1", StartDay - 1>>
           /\ b.open = 1000 /\ b.close = 1100 /\ b.high = 1200 /\ b.low = 900

\* The sum of a count over bars, skipping the bars without it.
RECURSIVE CountSum(_, _)
CountSum(bars, f) ==
    IF bars = {} THEN 0
    ELSE LET b == CHOOSE x \in bars : TRUE
         IN  (IF b[f] = None THEN 0 ELSE Val(b[f])) + CountSum(bars \ {b}, f)

\* C15: after aggregate_daily for a date with ticks, the ALL bar of each item
\* is, over the item's platform bars of that date only, the ALL row left out:
\* the smallest open, the smallest close, the largest high, the smallest low
\* and the sums of the sell and the bid counts.
C15_AllFromPlatformBars ==
    (AggregateFinished /\ ValidTicks # {}) =>
        \A n \in {r.name : r \in ValidTicks} :
            LET mine == {b \in price_history :
                            b.name = n /\ b.date = AggTarget /\ b.platform # "ALL"}
            IN  \E a \in price_history :
                    /\ BarKey(a) = <<n, "ALL", AggTarget>>
                    /\ \A b \in mine : /\ a.open <= b.open /\ a.close <= b.close
                                        /\ a.high >= b.high /\ a.low <= b.low
                    /\ \E b \in mine : a.open = b.open
                    /\ \E b \in mine : a.close = b.close
                    /\ \E b \in mine : a.high = b.high
                    /\ \E b \in mine : a.low = b.low
                    /\ \A f \in {"sell_count", "bidding_count"} :
                           IF \A b \in mine : b[f] = None THEN a[f] = None
                           ELSE a[f] = Some(CountSum(mine, f))

\* Two platforms had ticks and a third left a bar: the ALL bar is over three.
C15_Witness ==
    /\ AggregateFinished
    /\ {r.platform : r \in ValidTicks} = {"P1", "P2"}
    /\ StaleBars \cap price_history # {}
    /\ \E a \in price_history :
           /\ BarKey(a) = <<1, "ALL", StartDay - 1>>
           /\ a.high = 1300 /\ a.low = 800 /\ a.open = 900

\* C16: when no tick with a price exists for the target date, aggregate_daily
\* ends at its first query: nothing is upserted, no error is raised and every
\* bar, of every platform and date, stays as it was.
C16_NoTicksNoChange ==
    [][ (pc["daily_aggregate"] = "a_query" /\ ValidTicks = {}) =>
            /\ price_history' = price_history
            /\ pc'["daily_aggregate"] = "idle"
            /\ obs'["daily_aggregate"].outcome = "returned"
            /\ ~obs'["daily_aggregate"].raised
            /\ ~obs'["daily_aggregate"].wrote
      ]_vars

\* A run over a day with price-less ticks only has ended, beside stale bars.
C16_Witness ==
    /\ AggregateFinished
    /\ ValidTicks = {}
    /\ \E r \in price_snapshot : DateOfMinute(r.minute) = AggTarget
    /\ price_history = HistoryBars \cup StaleBars

-----------------------------------------------------------------------------
(* Properties of the scores and the indicators *)

\* C17: whatever the arguments, each of them absent or present,
\* compute_sell_score and compute_opportunity_score return a value from 0
\* to 100 (in hundredths: 0 to 10000).
C17_ScoresInRange ==
    (call.fn \in {"compute_sell_score", "compute_opportunity_score"}
        /\ IsSome(call.out)) =>
            Val(call.out) >= 0 /\ Val(call.out) <= 10000

\* A sell score of 100 whose dimensions add up to more: target reached one
\* and a half times, a long holding with a negative annualized return, a
\* concentrated position.
C17_Witness ==
    /\ call.fn = "compute_sell_score"
    /\ call.out = Some(10000)
    /\ call.args[1] = Some(100000) /\ call.args[2] = 3000
    /\ call.args[3] = Some(0 - 50000) /\ call.args[4] = 400
    /\ call.args[5] = Some(10000)

\* The indicators computed for the closes of the call.
CallIndicators == IF call.fn = "scores" THEN call.args[3] ELSE Val(call.out)

\* An optional value, or a value of the band no score term reacts to.
OrNeutral(x, neutral) == IF IsSome(x) THEN x ELSE Some(neutral)

\* C18: a close history shorter than the window of an indicator (SMA and
\* Bollinger: fewer than period closes; RSI and volatility: fewer than
\* period + 1; momentum: at most period) gives "no value" for that indicator
\* and no error, and an indicator without value adds nothing to either score:
\* the scores are those of an indicator inside its neutral band.
C18_ShortHistoryNoValue ==
    (call.fn \in {"indicators", "scores"} /\ IsSome(call.out)) =>
        LET n == Len(call.args[1])
            ind == CallIndicators
        IN  /\ n < 7 => ind.ma_7 = None
            /\ n < 30 => ind.ma_30 = None
            /\ n < 20 => ind.bb = None /\ ind.bb_pos = None
            /\ n < 15 => ind.rsi = None
            /\ n < 31 => ind.volatility_30 = None
            /\ n <= 7 => ind.momentum_7 = None
            /\ n <= 30 => ind.momentum_30 = None
            /\ call.fn = "scores" =>
                   Val(call.out) =
                       ScoresOf([ind EXCEPT !.rsi = OrNeutral(@, 5000),
                                            !.bb_pos = OrNeutral(@, 50),
                                            !.momentum_7 = OrNeutral(@, 0),
                                            !.momentum_30 = OrNeutral(@, 0)],
                                call.args[2])

\* Ten falling closes: the momentum of 7 days raises the opportunity score,
\* RSI, Bollinger and the 30-day indicators have no value and the sell score
\* is the base score.
C18_Witness ==
    /\ call.fn = "scores"
    /\ Len(call.args[1]) = 10
    /\ call.args[2] = None
    /\ call.args[3].rsi = None /\ call.args[3].bb = None
    /\ call.args[3].momentum_30 = None /\ call.args[3].volatility_30 = None
    /\ IsSome(call.args[3].momentum_7) /\ IsSome(call.args[3].ma_7)
    /\ Val(call.out).opportunity > 5000
    /\ Val(call.out).sell = 4500

-----------------------------------------------------------------------------
(* Properties of the alert generator *)

\* The value a rule looks at for a Signal row: a column of the row, or the
\* profit of the item against its latest tick.
FieldOf(s, field) ==
    IF field = "pnl_pct"
    THEN TickPnl(Lookup(PurchaseMap(inventory), s.name),
                 LatestPrice(price_snapshot, s.name))
    ELSE s[field]

\* The alerts of an item and kind: those of the runs since StartDay began, and
\* whether an earlier one is younger than 24 hours.
AlertsSince(n, kind) ==
    {i \in DOMAIN quant_alert :
        /\ quant_alert[i].name = n /\ quant_alert[i].alert_type = kind
        /\ quant_alert[i].created_at >= StartDay * DaySecs}
EarlierRecent(n, kind) ==
    \E i \in DOMAIN quant_alert :
        /\ quant_alert[i].name = n /\ quant_alert[i].alert_type = kind
        /\ quant_alert[i].created_at < StartDay * DaySecs
        /\ quant_alert[i].created_at > now - DaySecs

\* C19: when _generate_alerts has ended, for each Signal row of the date and
\* each rule of _ALERT_RULES an alert of the item and kind has been created
\* exactly when the field has a value strictly beyond the threshold and no
\* alert of the item and kind was younger than 24 hours; every rule is
\* looked at for every item, a field without value creates nothing, and the
\* alert holds the value and the threshold.
C19_AlertsPerRule ==
    (pc["req1"] = "q_read") =>
        \A s \in {r \in quant_signal : r.date = Date(now)} :
            \A k \in DOMAIN _ALERT_RULES :
                LET rule == _ALERT_RULES[k]
                    v == FieldOf(s, rule.field)
                    beyond == /\ IsSome(v)
                              /\ \/ rule.op = ">" /\ Val(v) > rule.threshold
                                 \/ rule.op = "<" /\ Val(v) < rule.threshold
                    made == AlertsSince(s.name, rule.alert_type)
                IN  /\ (beyond /\ ~EarlierRecent(s.name, rule.alert_type))
                           <=> made # {}
                    /\ Cardinality(made) <= 1
                    /\ \A i \in made :
                           /\ quant_alert[i].current_value = Val(v)
                           /\ quant_alert[i].threshold = rule.threshold

\* A run has ended that created both profit alerts of an item and a new
\* near_ath after the old one of two days ago, created no spread_arb beside
\* the one of an hour ago, and none for an ath_pct at the threshold.
C19_Witness ==
    /\ pc["req1"] = "q_read"
    /\ AlertsSince(1, "profit_50") # {} /\ AlertsSince(1, "profit_100") # {}
    /\ AlertsSince(1, "near_ath") # {}
    /\ AlertsSince(1, "spread_arb") = {}
    /\ \E s \in quant_signal :
           /\ s.date = Date(now) /\ s.name = 1
           /\ IsSome(s.spread_pct) /\ Val(s.spread_pct) > 1500
    /\ \E s \in quant_signal :
           /\ s.date = Date(now) /\ s.name = 2
           /\ s.ath_pct = Some(9000) /\ s.rsi_14 = None
    /\ AlertsSince(2, "near_ath") = {}

-----------------------------------------------------------------------------
(* Properties of the backfill's bars *)

\* The average of a period among the averages of the call, if there is one.
AvgOf(days) == Lookup(call.args[1], days)

\* The price of a bar is the base within the noise of 1.5 % and the rounding:
\* 1000 * |price - base| <= 15 * base + 500, with base = num / den.
NearBase(price, num, den) ==
    /\ 1000 * (price * den - num) <= 15 * num + 500 * den
    /\ 1000 * (num - price * den) <= 15 * num + 500 * den

\* C20: an item with a positive average gets exactly one ALL bar for each of
\* the 45 days before today and none for today; the base price of days 16-45
\* back is the 90-day average (else the 30-day, else the 7-day one), of days
\* 1-4 back the 7-day average, and of days 5-15 back it moves in a line from
\* the far base to the 30-day average, which it reaches at day 5 back.  An
\* item without a positive average gets no bars.
C20_BackfillBasePrices ==
    (call.fn = "backfill_bars" /\ IsSome(call.out)) =>
        LET bars == Val(call.out)
            today == call.args[2]
            far == IF IsSome(AvgOf(90)) THEN AvgOf(90)
                   ELSE IF IsSome(AvgOf(30)) THEN AvgOf(30) ELSE AvgOf(7)
        IN  IF call.args[1] = {} THEN bars = {}
            ELSE /\ \A b \in bars : b.name = 1 /\ b.platform = "ALL"
                 /\ {b.date : b \in bars} = {today - d : d \in 1..45}
                 /\ Cardinality(bars) = 45
                 /\ \A b \in bars :
                        LET d == today - b.date
                        IN  /\ d > 15 => NearBase(b.close, Val(far), 1)
                            /\ (d <= 4 /\ IsSome(AvgOf(7))) =>
                                   NearBase(b.close, Val(AvgOf(7)), 1)
                            /\ (d > 4 /\ d <= 15 /\ IsSome(AvgOf(30))) =>
                                   NearBase(b.close,
                                       Val(far) * (d - 5) + Val(AvgOf(30)) * (15 - d), 10)

-----------------------------------------------------------------------------
(* Properties of the batches of a collection cycle *)

RECURSIVE Flatten(_)
\* The batches laid end to end.
Flatten(chunks) ==
    IF chunks = <<>> THEN <<>> ELSE Head(chunks) \o Flatten(Tail(chunks))

\* The batches a name is in.
BatchesOf(chunks, name) ==
    {k \in DOMAIN chunks : name \in Range(chunks[k])}

\* C21: the batches of a cycle are the distinct active names cut into
\* consecutive pieces: each name is in exactly one batch, a batch has at most
\* 100 names, every batch but the last has exactly 100, batches_total is
\* ceil(n / 100), and an upstream bulk call never carries more than 100 names.
C21_BatchesPartitionNames ==
    LET t == "price_collect"
        l == loc[t]
        n == Len(l.hash_names)
    IN  pc[t] \in {"c_call", "c_resp", "c_sleep"} =>
            /\ l.hash_names = ActiveNames
            /\ Cardinality(Range(l.hash_names)) = n
            /\ {inventory[i].name : i \in DOMAIN inventory} = Range(l.hash_names)
            /\ Flatten(l.chunks) = l.hash_names
            /\ \A name \in Range(l.hash_names) :
                   Cardinality(BatchesOf(l.chunks, name)) = 1
            /\ \A k \in DOMAIN l.chunks :
                   /\ Len(l.chunks[k]) >= 1
                   /\ Len(l.chunks[k]) <= 100
                   /\ k < Len(l.chunks) => Len(l.chunks[k]) = 100
            /\ \E q \in 1..n : /\ 100 * q >= n
                                /\ 100 * (q - 1) < n
                                /\ collector_state.batches_total = q
                                /\ Len(l.chunks) = q
            /\ pc[t] = "c_resp" => Len(l.chunks[l.idx]) <= 100

\* The upstream call of the third and last batch, of one name, is under way.
C21_Witness ==
    LET l == loc["price_collect"]
    IN  /\ pc["price_collect"] = "c_resp"
        /\ Len(l.chunks) = 3
        /\ l.idx = 3
        /\ Len(l.chunks[3]) = 1

-----------------------------------------------------------------------------
(* Properties of the dimensions of the sell score *)

\* The sell score of the call's arguments with some of them replaced.
SellWith(a, pnl_pct, target_pnl_pct, holding_count) ==
    compute_sell_score(pnl_pct, target_pnl_pct, a[3], a[4], a[5], holding_count,
                       a[7], a[8], a[9], a[10], a[11])

\* The sum before the clamp, of the call's arguments with the target replaced.
RawWith(a, target_pnl_pct) ==
    SellRaw(a[1], target_pnl_pct, a[3], a[4], a[5], a[6], a[7], a[8], a[9],
            a[10], a[11])

\* A finished call of compute_sell_score with a positive target.
SellReturned ==
    call.fn = "compute_sell_score" /\ IsSome(call.out) /\ call.args[2] > 0

\* The decay dimension would subtract: more than 30 days, more than 45 % a year.
DecaySubtracts(a) == IsSome(a[3]) /\ a[4] > 30 /\ Val(a[3]) > 4500

SellDone == call.fn = "compute_sell_score" /\ IsSome(call.out)

\* The decay dimension of the call's arguments.
CallDecay == SellDecayTerm(call.args[1], call.args[3], call.args[4])

\* The decay dimension takes part: a value, over 30 days, no loss.
DecayApplies(a) ==
    IsSome(a[3]) /\ a[4] > 30 /\ (a[1] = None \/ Val(a[1]) >= 0)

-----------------------------------------------------------------------------
(* Properties of the PnL-trough term of the opportunity score *)

\* A finished call of compute_opportunity_score with a pnl and a target.
TroughReturned ==
    /\ call.fn = "compute_opportunity_score"
    /\ IsSome(call.out)
    /\ IsSome(call.args[5])
    /\ call.args[6] > 0

\* The losses between 5 % and 20 % among the values tried.
MildLosses ==
    {q \in TroughPnls : IsSome(q) /\ Val(q) < 0 - 500 /\ Val(q) >= 0 - 2000}

\* C24: the PnL-trough term for a loss greater than 20 % is at most +20 and
\* is never smaller than the term for any loss between 5 % and 20 %; a profit
\* above the target subtracts at most 15; a pnl between -5 % and the target
\* contributes 0.
C24_TroughTerm ==
    TroughReturned =>
        LET pnl == Val(call.args[5])
            target == call.args[6]
            term == OppTroughTerm(call.args[5], target)
        IN  /\ pnl < 0 - 2000 =>
                   /\ term <= 2000
                   /\ \A q \in MildLosses : term >= OppTroughTerm(q, target)
            /\ pnl > target => (term <= 0 /\ term >= 0 - 1500)
            /\ (pnl >= 0 - 500 /\ pnl <= target) => term = 0

-----------------------------------------------------------------------------
(* Properties of the quick profit alerts *)

\* The alerts a step appends to quant_alert.
AddedAlerts ==
    SubSeq(quant_alert', Len(quant_alert) + 1, Len(quant_alert'))

\* The inventory rows of a name that carry a cost.
CostedRows(name) ==
    {i \in DOMAIN inventory :
        inventory[i].name = name /\ IsSome(inventory[i].eff_price)}

\* C25: a run of compute_quick_pnl_alerts creates at most one alert per
\* holding, and it is the alert of the highest threshold the profit exceeds:
\* profit_100 or nothing when pnl% > 100, never profit_50, also when a
\* profit_100 alert of the item exists within 24 hours.
C25_QuickHighestOnly ==
    [][pc["req1"] = "q_check" =>
          /\ \A name \in InvNames(inventory) :
                 Cardinality({i \in DOMAIN AddedAlerts : AddedAlerts[i].name = name})
                     <= Cardinality(CostedRows(name))
          /\ \A i \in DOMAIN AddedAlerts :
                 AddedAlerts[i].alert_type =
                     IF AddedAlerts[i].current_value > 10000
                     THEN "profit_100" ELSE "profit_50"]_vars

-----------------------------------------------------------------------------
(* Properties of the collector's status *)

\* C26: every collect_prices invocation that set the status to running sets
\* it to idle or error in the end, given that each upstream call and each
\* sleep returns or fails; the status is not running once the invocation has
\* ended, whether without active items, with all batches done, with failed
\* batches or with an exception outside the batch loop.
C26_CollectEndsNotRunning ==
    /\ [](pc["price_collect"] = "idle" => collector_state.status # "running")
    /\ [](pc["price_collect"] # "idle" => collector_state.status = "running")
    /\ (collector_state.status = "running")
           ~> (/\ pc["price_collect"] = "idle"
               /\ collector_state.status \in {"idle", "error"})

\* A cycle of three batches has ended with failed batches only.
C26_Witness ==
    LET l == loc["price_collect"]
    IN  /\ pc["price_collect"] = "idle"
        /\ collector_state.status = "idle"
        /\ Len(l.results) = 3
        /\ Range(l.results) = {FALSE}

\* C27: in every state a status poll can see, the progress counters of the
\* collector satisfy 0 <= batches_done <= batches_total and
\* items_collected <= 100 * batches_done, over any number of cycles.
C27_ProgressCounters ==
    LET cs == collector_state
    IN  /\ 0 <= cs.batches_done
        /\ cs.batches_done <= cs.batches_total
        /\ 0 <= cs.items_collected
        /\ cs.items_collected <= 100 * cs.batches_done

\* A new cycle has begun and its query is under way: items_collected is reset,
\* the batch counters still show the three batches of the cycle before.
C27_Witness ==
    /\ pc["price_collect"] = "c_query"
    /\ collector_state.status = "running"
    /\ collector_state.batches_done = 3
    /\ collector_state.items_collected = 0
    /\ Len(inventory) = 1

-----------------------------------------------------------------------------
(* Properties of the backfill's progress *)

\* The backfill tasks that have run to their end.
BackfillEnded ==
    {b \in BackfillThreads : pc[b] = "idle" /\ obs[b].outcome \in {"returned", "failed"}}

\* C28: during a backfill run done <= total in every observable state, the
\* counter advances by one per (item, period) fetch whether the fetch succeeded
\* or failed, and a run that started ends with status done or error, never
\* remaining in running.
C28_BackfillProgress ==
    /\ BackfillRunning # {} => backfill_state.done <= backfill_state.total
    /\ \A b \in BackfillRunning :
           (obs["req1"].started = 1 /\ pc[b] \in {"b_fetch", "b_sleep"}) =>
               backfill_state.done = 3 * Len(loc[b].hash_names) - Len(loc[b].todo)
    /\ (BackfillRunning = {} /\ BackfillEnded # {}) =>
           backfill_state.status \in {"done", "error"}

-----------------------------------------------------------------------------
(* C29 *)

\* The names of the run of req1 that have indicators and did not raise.
SignalNamesLeft ==
    {n \in loc["req1"].all_names \ loc["req1"].failed :
        IsSome(ItemData(price_history, price_snapshot, inventory,
                        loc["req1"].all_names)[n])}

\* C29: when the indicators or the scores of some items fail, the step that
\* executes and commits the upserts of compute_all_signals leaves in
\* quant_signal a row of the target date for every other name that has
\* indicators, each one a row this run computed, and the count the job
\* returns is the number of rows it wrote, one per such name.
C29_OtherRowsWritten ==
    [][pc["req1"] = "s_write" /\ pc'["req1"] # "s_write" =>
          /\ \A n \in SignalNamesLeft :
                \E r \in loc["req1"].rows :
                    r.name = n /\ r.date = Val(loc["req1"].target_date)
                               /\ r \in quant_signal'
          /\ loc'["req1"].count = Cardinality(loc["req1"].rows)
          /\ loc'["req1"].count = Cardinality(SignalNamesLeft)]_vars

\* A run in which one name failed has written the rows of two others.
C29_Witness ==
    /\ pc["req1"] = "g_read"
    /\ Cardinality(loc["req1"].failed) = 1
    /\ loc["req1"].count = 2
    /\ \A n \in loc["req1"].all_names \ loc["req1"].failed :
          \E r \in quant_signal : r.name = n /\ r.date = Val(loc["req1"].target_date)

-----------------------------------------------------------------------------
(* C30 *)

\* C30 as stated: for a returned compute_sell_score call with a concentration
\* value, the same arguments with any larger holding count give a score that
\* is not lower, and the extra for the holding count is at most +5.
C30_HoldingMonotone ==
    (call.fn = "compute_sell_score" /\ IsSome(call.out) /\ IsSome(call.args[5])) =>
        /\ \A h \in HoldingSteps :
              h >= call.args[6] =>
                  SellWith(call.args, call.args[1], call.args[2], h)
                      >= Val(call.out)
        /\ HoldingBonus(call.args[6]) <= 500

====
